---- MODULE Spec2Model ----
(***************************************************************************)
(* Model of the risk review engine of src/components/ReviewInterface.tsx   *)
(* and of the masking page of src/components/PrivacyGuard.tsx.             *)
(*                                                                         *)
(* Texts are sequences of one-character strings.  The handlers of the      *)
(* component are the operations of the reconciliation engine (spec 4.3):   *)
(* each is one action, callable with any risk of the current list.  The    *)
(* string primitives (indexOf, includes, replace, split, sort) follow the  *)
(* ECMAScript semantics of the calls the handlers make.  The masking page  *)
(* is the component with its props: the rule list sensitiveWords is kept   *)
(* by the parent, which stores what onUpdateSensitiveWords hands it.       *)
(***************************************************************************)
EXTENDS Integers, Sequences, FiniteSets, TLC

VARIABLES
    currentText,            \* useState currentText (the working document)
    risks,                  \* useState risks: sequence of RiskPoint records
    selectedRiskId,         \* useState selectedRiskId, NoId when null
    history,                \* useState history: sequence of {text, risks, selectedId}
    isAnimatingSuccess,     \* useState isAnimatingSuccess
    animatingRiskId,        \* useState animatingRiskId, NoId when null
    transitionTimeoutRef,   \* useRef: handle of the last scheduled timer, NoTimer when null
    timers,                 \* pending setTimeout callbacks of handleAcceptRisk: [id, nextRiskId]
    loading,                \* useState loading: an analysis request is in flight
    requestText,            \* currentText captured by the closure of the running handleAnalyze
    analyses,               \* number of runs of handleAnalyze so far: the clock read by Date.now()
    sessions,               \* App.tsx useState sessions, written through onSaveSession
    originalContent,        \* PrivacyGuard prop originalContent (the uploaded contract)
    sensitiveWords,         \* PrivacyGuard prop sensitiveWords: sequence of {id, target, placeholder}
    activeRegexes,          \* PrivacyGuard useState activeRegexes: ids of the enabled detectors
    privacyData,            \* App.tsx useState privacyData, NoPrivacy when null
    initialSession,         \* App.tsx historySession is set: the page shows a reopened session
    isMaskedView            \* useState isMaskedView: the document view shows the masked text

\* the state of the masking page
guardVars == <<originalContent, sensitiveWords, activeRegexes>>

\* what App.tsx hands to the review page besides the contract, and the view
\* the page takes from it at mount
appVars == <<privacyData, initialSession, isMaskedView>>

vars == <<currentText, risks, selectedRiskId, history, isAnimatingSuccess,
          animatingRiskId, transitionTimeoutRef, timers, loading, requestText,
          analyses, sessions, originalContent, sensitiveWords, activeRegexes,
          privacyData, initialSession, isMaskedView>>

----------------------------------------------------------------------------
(* Bounds *)

\* cap on the depth of the undo history
MaxHistory == 2

\* cap on the number of mask rules in the list
MaxRules == 2

\* cap on the number of runs of handleAnalyze
MaxAnalyses == 2

----------------------------------------------------------------------------
(* Values *)

NoId == 0
NoTimer == 0
NoLevel == "NONE"

\* privacyData of a contract that was not masked (null), and of a masked one
NoPrivacy == [isMasked |-> FALSE, maskedContent |-> <<>>, maskMap |-> <<>>]
Masked(text) == [isMasked |-> TRUE, maskedContent |-> text, maskMap |-> <<>>]

\* src/types.ts RiskLevel
RiskLevel == {"HIGH", "MEDIUM", "LOW"}

\* App.tsx: .slice(0, 20)
MaxSessions == 20

\* contract texts the review is opened with
Documents == { <<"a", "b", "c", "a", "b">> }

\* risk annotations the external analyser may return: "ab" and "a" start at the
\* same offset and occur twice, accepting "ab" removes the only "bc", the
\* suggestion of "ab" holds a replacement pattern, the one of "a" is empty
RiskAB == [originalText |-> <<"a", "b">>, suggestedText |-> <<"$", "$">>, level |-> "HIGH"]
RiskA  == [originalText |-> <<"a">>,      suggestedText |-> <<>>,         level |-> "MEDIUM"]
RiskBC == [originalText |-> <<"b", "c">>, suggestedText |-> <<"x">>,      level |-> "LOW"]

\* an annotation whose originalText is not in the contract; the suggestion of
\* "bc" writes it
RiskX  == [originalText |-> <<"x">>,      suggestedText |-> <<"y">>,      level |-> "HIGH"]

Templates == {RiskAB, RiskA, RiskBC, RiskX}

\* responses of the analyser: the annotations in document order and against it,
\* a response with the annotation that is not in the contract, and every
\* shorter response that starts the same way
Responses ==
    UNION { { SubSeq(full, 1, n) : n \in 0..Len(full) } :
            full \in { <<RiskAB, RiskA, RiskBC>>, <<RiskBC, RiskA, RiskAB>>,
                       <<RiskX, RiskBC>> } }

\* JSON values: an array of annotations, an object, anything else
jsonArray(items) == [type |-> "array", items |-> items, fields |-> {}]
jsonObject(fields) == [type |-> "object", items |-> <<>>, fields |-> fields]
jsonNull == [type |-> "null", items |-> <<>>, fields |-> {}]

\* the fields of an annotation as a set of name and value pairs
fieldsOf(t) ==
    { <<"originalText", t.originalText>>, <<"suggestedText", t.suggestedText>>,
      <<"level", t.level>> }

\* what callAIProvider returns: no text at all, prose without a JSON value, a
\* JSON value as it stands, inside a Markdown fence or inside prose
Contents ==
    { [form |-> "json", value |-> jsonArray(resp)] : resp \in Responses }
    \cup { [form |-> "none",     value |-> jsonNull],
           [form |-> "prose",    value |-> jsonNull],
           [form |-> "json",     value |-> jsonNull],
           [form |-> "fenced",   value |-> jsonArray(<<RiskA>>)],
           [form |-> "embedded", value |-> jsonArray(<<RiskBC>>)],
           [form |-> "json",     value |-> jsonObject(fieldsOf(RiskAB))],
           [form |-> "embedded", value |-> jsonObject(fieldsOf(RiskA))],
           [form |-> "json",     value |-> jsonObject({<<"risks", <<RiskAB>> >>})],
           [form |-> "json",     value |-> jsonObject({<<"originalText", <<>> >>})] }

\* the full-width parentheses U+FF08 and U+FF09, each one character of a text
FullOpen == "FF08"
FullClose == "FF09"

\* contracts the masking page is opened on: "A" behind a half-width and behind a
\* full-width parenthesis, "B" once, two amounts at the end
MaskDocuments == { <<"(", "A", "B", FullOpen, "A", "$", "1", "$", "1">> }

\* what the user selects or types as the target of a rule: a target written with
\* the half-width parenthesis, a target inside it, a target of its own
MaskTargets == { <<"(", "A">>, <<"A">>, <<"B">> }

\* what the user types or picks as the placeholder of a rule: two tags, a tag
\* that holds a target, a text with a replacement pattern
MaskPlaceholders == { <<"[", "P", "]">>, <<"[", "Q", "]">>, <<"[", "B", "]">>, <<"$", "$">> }

----------------------------------------------------------------------------
(* ECMAScript string and array primitives *)

Min(S) == CHOOSE x \in S : \A y \in S : x <= y

\* String.prototype.indexOf(sub): 0-based offset of the first occurrence, -1 if none
indexOf(s, sub) ==
    LET cands == { i \in 0..(Len(s) - Len(sub)) : SubSeq(s, i + 1, i + Len(sub)) = sub }
    IN  IF cands = {} THEN -1 ELSE Min(cands)

\* String.prototype.includes(sub)
includes(s, sub) == indexOf(s, sub) # -1

\* GetSubstitution for a string pattern (no capture groups): $$, $&, $`, $' are
\* expanded, every other character (also a $ before anything else) is literal
RECURSIVE GetSubstitution(_, _, _, _, _)
GetSubstitution(matched, str, position, replacement, k) ==
    IF k > Len(replacement) THEN <<>>
    ELSE IF replacement[k] = "$" /\ k < Len(replacement)
              /\ replacement[k + 1] \in {"$", "&", "`", "'"}
         THEN (CASE replacement[k + 1] = "$" -> <<"$">>
                 [] replacement[k + 1] = "&" -> matched
                 [] replacement[k + 1] = "`" -> SubSeq(str, 1, position)
                 [] replacement[k + 1] = "'" ->
                        SubSeq(str, position + Len(matched) + 1, Len(str)))
              \o GetSubstitution(matched, str, position, replacement, k + 2)
         ELSE <<replacement[k]>>
              \o GetSubstitution(matched, str, position, replacement, k + 1)

\* faulty variant of replace: a pattern that is not found gets the replacement appended
replace_MissingAppends(s, pattern, replacement) ==
    IF indexOf(s, pattern) = -1 THEN s \o replacement
    ELSE SubSeq(s, 1, indexOf(s, pattern))
         \o GetSubstitution(pattern, s, indexOf(s, pattern), replacement, 1)
         \o SubSeq(s, indexOf(s, pattern) + Len(pattern) + 1, Len(s))

\* String.prototype.replace(pattern: string, replacement: string): first occurrence only
replace(s, pattern, replacement) ==
    LET pos == indexOf(s, pattern)
    IN  IF pos = -1 THEN s
        ELSE SubSeq(s, 1, pos)
             \o GetSubstitution(pattern, s, pos, replacement, 1)
             \o SubSeq(s, pos + Len(pattern) + 1, Len(s))

\* String.prototype.split(separator: string)
RECURSIVE split(_, _)
split(s, sep) ==
    IF Len(s) = 0 THEN (IF Len(sep) = 0 THEN <<>> ELSE <<s>>)
    ELSE IF Len(sep) = 0 THEN [i \in 1..Len(s) |-> <<s[i]>>]
    ELSE LET q == indexOf(s, sep)
         IN  IF q = -1 THEN <<s>>
             ELSE <<SubSeq(s, 1, q)>> \o split(SubSeq(s, q + Len(sep) + 1, Len(s)), sep)

\* faulty variant of sortByKey: leaves the array in the order it came in
sortByKey_Unsorted(seq, keys) == seq

\* Array.prototype.sort with the comparator key(a) - key(b): stable, ascending by key.
\* keys[i] is the key of seq[i].
sortByKey(seq, keys) ==
    LET n == Len(seq)
        rank(i) == Cardinality({ j \in 1..n : keys[j] < keys[i]
                                             \/ (keys[j] = keys[i] /\ j < i) }) + 1
    IN  [k \in 1..n |-> seq[CHOOSE i \in 1..n : rank(i) = k]]

\* Array.prototype.findIndex(r => r.id === id), 0-based, -1 if none
findIndex(seq, id) ==
    LET cands == { i \in 1..Len(seq) : seq[i].id = id }
    IN  IF cands = {} THEN -1 ELSE Min(cands) - 1

----------------------------------------------------------------------------
(* Derived state (useMemo) *)

\* faulty variant of visibleRisksOf: no filter, every risk of the list stays visible
visibleRisksOf_All(rs, text) == rs

\* faulty variant of visibleRisksOf: drops the isAddressed alternative of the filter
visibleRisksOf_OnlyPresent(rs, text) ==
    SelectSeq(rs, LAMBDA r : includes(text, r.originalText))

\* risks.filter(r => r.isAddressed || currentText.includes(r.originalText))
visibleRisksOf(rs, text) ==
    SelectSeq(rs, LAMBDA r : r.isAddressed \/ includes(text, r.originalText))

visibleRisks == visibleRisksOf(risks, currentText)

\* .sort((a, b) => currentText.indexOf(a.originalText) - currentText.indexOf(b.originalText))
sortByOriginalText(rs, text) ==
    sortByKey(rs, [i \in 1..Len(rs) |-> indexOf(text, rs[i].originalText)])

\* faulty variant of sortedActiveRisksOf: addressed risks are not filtered out
sortedActiveRisksOf_WithAddressed(rs, text) ==
    sortByOriginalText(visibleRisksOf(rs, text), text)

\* visibleRisks.filter(r => !r.isAddressed).sort(by currentText.indexOf(originalText))
sortedActiveRisksOf(rs, text) ==
    sortByOriginalText(SelectSeq(visibleRisksOf(rs, text), LAMBDA r : ~r.isAddressed), text)

sortedActiveRisks == sortedActiveRisksOf(risks, currentText)

----------------------------------------------------------------------------
(* renderDocumentContent: segmentation of currentText into display parts *)

PlainPart(t) == [text |-> t, riskId |-> NoId, level |-> NoLevel, isAnimating |-> FALSE]

RiskPart(seg) ==
    [text |-> seg.matchText, riskId |-> seg.id, level |-> seg.level,
     isAnimating |-> seg.isAnimating]

\* sortedActiveRisks.map(r => ({ ...r, matchText: r.originalText, isAnimating: false }))
activeSegments(active) ==
    [i \in 1..Len(active) |->
        [id |-> active[i].id, level |-> active[i].level,
         matchText |-> active[i].originalText, isAnimating |-> FALSE]]

\* the candidates: one per active risk, plus the risk in accept animation
segmentsToHighlight(rs, text, animId) ==
    LET idx == findIndex(rs, animId)
    IN  IF animId # NoId /\ idx # -1
        THEN Append(activeSegments(sortedActiveRisksOf(rs, text)),
                    [id |-> rs[idx + 1].id, level |-> rs[idx + 1].level,
                     matchText |-> rs[idx + 1].suggestedText, isAnimating |-> TRUE])
        ELSE activeSegments(sortedActiveRisksOf(rs, text))

\* .sort((a, b) => currentText.indexOf(a.matchText) - currentText.indexOf(b.matchText))
sortByMatchText(segs, text) ==
    sortByKey(segs, [i \in 1..Len(segs) |-> indexOf(text, segs[i].matchText)])

\* .filter(s => currentText.indexOf(s.matchText) !== -1).sort(by indexOf(matchText))
sortedSegments(rs, text, animId) ==
    sortByMatchText(SelectSeq(segmentsToHighlight(rs, text, animId),
                              LAMBDA s : indexOf(text, s.matchText) # -1), text)

\* faulty variant of splitPart: the loop bound is off by one, the last occurrence is not pushed
splitPart_OffByOne(part, seg) ==
    IF part.riskId # NoId THEN <<part>>
    ELSE LET sp == split(part.text, seg.matchText)
         IN  IF Len(sp) > 1
             THEN [k \in 1..(2 * Len(sp) - 2) |->
                      IF k % 2 = 1 THEN PlainPart(sp[(k + 1) \div 2])
                      ELSE IF k = 2 * Len(sp) - 2 THEN PlainPart(sp[Len(sp)])
                      ELSE RiskPart(seg)]
             ELSE <<part>>

\* the body of parts.forEach for one part and one candidate
splitPart(part, seg) ==
    IF part.riskId # NoId THEN <<part>>
    ELSE LET sp == split(part.text, seg.matchText)
         IN  IF Len(sp) > 1
             THEN [k \in 1..(2 * Len(sp) - 1) |->
                      IF k % 2 = 1 THEN PlainPart(sp[(k + 1) \div 2])
                      ELSE RiskPart(seg)]
             ELSE <<part>>

RECURSIVE splitParts(_, _)
splitParts(parts, seg) ==
    IF parts = <<>> THEN <<>>
    ELSE splitPart(Head(parts), seg) \o splitParts(Tail(parts), seg)

RECURSIVE applySegments(_, _)
applySegments(parts, segs) ==
    IF segs = <<>> THEN parts
    ELSE applySegments(splitParts(parts, Head(segs)), Tail(segs))

renderPartsOf(rs, text, animId) ==
    applySegments(<<PlainPart(text)>>, sortedSegments(rs, text, animId))

renderParts == renderPartsOf(risks, currentText, animatingRiskId)

----------------------------------------------------------------------------
(* Initial state: the review page mounted on a contract that was not masked
   (onSkip), nothing analyses *)

Init ==
    /\ currentText \in Documents
    /\ risks = <<>>
    /\ selectedRiskId = NoId
    /\ history = <<>>
    /\ isAnimatingSuccess = FALSE
    /\ animatingRiskId = NoId
    /\ transitionTimeoutRef = NoTimer
    /\ timers = {}
    /\ loading = FALSE
    /\ requestText = <<>>
    /\ analyses = 0
    /\ sessions = <<>>
    /\ originalContent = currentText
    /\ sensitiveWords = <<>>
    /\ activeRegexes = {}
    /\ privacyData = NoPrivacy
    /\ initialSession = FALSE
    /\ isMaskedView = privacyData.isMasked

----------------------------------------------------------------------------
(* Analysis *)

\* faulty variant of saveSession: the entry with the id of the session stays
saveSession_KeepsOld(list, session) ==
    LET all == <<session>> \o list
    IN  SubSeq(all, 1, IF Len(all) < MaxSessions THEN Len(all) ELSE MaxSessions)

\* App.tsx saveSession: newest first, same id replaced, at most MaxSessions kept
saveSession(list, session) ==
    LET rest == SelectSeq(list, LAMBDA s : s.id # session.id)
        all  == <<session>> \o rest
    IN  SubSeq(all, 1, IF Len(all) < MaxSessions THEN Len(all) ELSE MaxSessions)

\* analyzeContractRisks: every returned risk gets an id, made of its index in
\* the response and of Date.now(), and isAddressed = false; the ids of a run
\* are the indexes, shifted past the ids of the runs before it
identifiedRisks(resp) ==
    [i \in 1..Len(resp) |->
        [id |-> (analyses - 1) * Cardinality(Templates) + i,
         originalText |-> resp[i].originalText,
         suggestedText |-> resp[i].suggestedText,
         level |-> resp[i].level,
         isAddressed |-> FALSE]]

\* safeJsonParse: the parsed value; defaultVal for no text and for text in
\* which neither the whole, nor a fence, nor the outermost [..] or {..} parses
safeJsonParse(text, defaultVal) ==
    IF text.form \in {"none", "prose"} THEN defaultVal ELSE text.value

\* the value of field name of a JSON object, <<>> (falsy) without the field
fieldOr(fields, name) ==
    IF \E f \in fields : f[1] = name
    THEN (CHOOSE f \in fields : f[1] = name)[2] ELSE <<>>

\* analyzeContractRisks, normalisation: an array as it is, a lone annotation
\* (an object with a non-empty originalText) as an array of one, the rest empty
rawRisks(content) ==
    LET parsed == safeJsonParse(content, jsonArray(<<>>))
    IN  IF parsed.type = "array" THEN parsed.items
        ELSE IF parsed.type = "object" /\ fieldOr(parsed.fields, "originalText") # <<>>
             THEN << [originalText |-> fieldOr(parsed.fields, "originalText"),
                      suggestedText |-> fieldOr(parsed.fields, "suggestedText"),
                      level |-> fieldOr(parsed.fields, "level")] >>
             ELSE <<>>

\* handleAnalyze up to the await, from the start button of the configuration
\* panel (rendered while risks.length === 0, disabled while loading)
AnalyzeStart ==
    /\ ~loading
    /\ Len(risks) = 0
    /\ analyses < MaxAnalyses
    /\ loading' = TRUE
    /\ requestText' = currentText
    /\ analyses' = analyses + 1
    /\ UNCHANGED <<currentText, risks, selectedRiskId, history, isAnimatingSuccess,
                   animatingRiskId, transitionTimeoutRef, timers, sessions, guardVars, appVars>>

\* faulty variant of AnalyzeSuccess: the session keeps the risks in the order
\* of the response
AnalyzeSuccess_SavesReturned(resp) ==
    /\ loading
    /\ risks' = sortByOriginalText(identifiedRisks(resp), requestText)
    /\ sessions' = saveSession(sessions,
                       [id |-> analyses, content |-> requestText,
                        risks |-> identifiedRisks(resp), privacyData |-> privacyData])
    /\ history' = <<>>
    /\ loading' = FALSE
    /\ UNCHANGED <<currentText, selectedRiskId, isAnimatingSuccess, animatingRiskId,
                   transitionTimeoutRef, timers, requestText, analyses, guardVars, appVars>>

\* handleAnalyze after the await, the request succeeded with response resp
AnalyzeSuccess(resp) ==
    /\ loading
    /\ LET sorted == sortByOriginalText(identifiedRisks(resp), requestText)
       IN  /\ risks' = sorted
           /\ sessions' = saveSession(sessions,
                              [id |-> analyses, content |-> requestText,
                               risks |-> sorted, privacyData |-> privacyData])
    /\ history' = <<>>
    /\ loading' = FALSE
    /\ UNCHANGED <<currentText, selectedRiskId, isAnimatingSuccess, animatingRiskId,
                   transitionTimeoutRef, timers, requestText, analyses, guardVars, appVars>>

\* handleAnalyze after the await, the request threw
AnalyzeFail ==
    /\ loading
    /\ loading' = FALSE
    /\ UNCHANGED <<currentText, risks, selectedRiskId, history, isAnimatingSuccess,
                   animatingRiskId, transitionTimeoutRef, timers, requestText,
                   analyses, sessions, guardVars, appVars>>

----------------------------------------------------------------------------
(* Review handlers *)

\* handleSelectRisk: setSelectedRiskId (the delayed scrollIntoView changes no state)
handleSelectRisk(riskId) == selectedRiskId' = riskId

\* faulty variant of nextRiskIdOf: no wrap to the first risk after the last one
nextRiskIdOf_NoWrap(active, riskId) ==
    IF findIndex(active, riskId) # -1 /\ findIndex(active, riskId) < Len(active) - 1
    THEN active[findIndex(active, riskId) + 2].id
    ELSE NoId

\* faulty variant of nextRiskIdOf: the index is not advanced, the risk follows itself
nextRiskIdOf_Stays(active, riskId) ==
    IF findIndex(active, riskId) # -1 /\ Len(active) > 1
    THEN active[findIndex(active, riskId) + 1].id
    ELSE NoId

\* the nextRiskId computed by handleAcceptRisk and handleIgnoreRisk
nextRiskIdOf(active, riskId) ==
    LET currentIndex == findIndex(active, riskId)
    IN  IF currentIndex # -1 /\ Len(active) > 1
        THEN IF currentIndex < Len(active) - 1
             THEN active[currentIndex + 2].id
             ELSE active[1].id
        ELSE NoId

\* faulty variant of markAddressed: every risk of the list is marked
markAddressed_All(rs, riskId) ==
    [i \in 1..Len(rs) |-> [rs[i] EXCEPT !.isAddressed = TRUE]]

\* risks.map(r => r.id === riskId ? { ...r, isAddressed: true } : r)
markAddressed(rs, riskId) ==
    [i \in 1..Len(rs) |->
        IF rs[i].id = riskId THEN [rs[i] EXCEPT !.isAddressed = TRUE] ELSE rs[i]]

\* faulty variant of historyEntry: the selection is not recorded
historyEntry_NoSelection == [text |-> currentText, risks |-> risks, selectedId |-> NoId]

\* the entry handleAcceptRisk and handleIgnoreRisk push
historyEntry == [text |-> currentText, risks |-> risks, selectedId |-> selectedRiskId]

\* setTimeout returns a handle no pending timer uses
freshTimer(ts) == Min((1..(Cardinality(ts) + 1)) \ { t.id : t \in ts })

\* faulty variant of clearTimeout: the pending callback is not removed
clearTimeout_Keeps(ts, handle) == ts

\* clearTimeout(handle)
clearTimeout(ts, handle) == { t \in ts : t.id # handle }

HandleAcceptRisk(risk) ==
    /\ Len(history) < MaxHistory
    /\ history' = Append(history, historyEntry)
    /\ animatingRiskId' = risk.id
    /\ isAnimatingSuccess' = TRUE
    /\ currentText' = replace(currentText, risk.originalText, risk.suggestedText)
    /\ risks' = markAddressed(risks, risk.id)
    /\ LET nextRiskId == nextRiskIdOf(sortedActiveRisks, risk.id)
           pending    == clearTimeout(timers, transitionTimeoutRef)
           handle     == freshTimer(pending)
       IN  /\ timers' = pending \cup {[id |-> handle, nextRiskId |-> nextRiskId]}
           /\ transitionTimeoutRef' = handle
    /\ UNCHANGED <<selectedRiskId, loading, requestText, analyses, sessions, guardVars, appVars>>

\* faulty variant of TimerFire: the callback ends the animation but moves no focus
TimerFire_NoFocus(t) ==
    /\ t \in timers
    /\ timers' = timers \ {t}
    /\ isAnimatingSuccess' = FALSE
    /\ animatingRiskId' = NoId
    /\ UNCHANGED <<currentText, risks, selectedRiskId, history, transitionTimeoutRef,
                   loading, requestText, analyses, sessions, guardVars, appVars>>

\* the callback handleAcceptRisk schedules, run 1500 ms later unless cleared
TimerFire(t) ==
    /\ t \in timers
    /\ timers' = timers \ {t}
    /\ isAnimatingSuccess' = FALSE
    /\ animatingRiskId' = NoId
    /\ IF t.nextRiskId # NoId THEN handleSelectRisk(t.nextRiskId)
                              ELSE selectedRiskId' = NoId
    /\ UNCHANGED <<currentText, risks, history, transitionTimeoutRef, loading,
                   requestText, analyses, sessions, guardVars, appVars>>

\* faulty variant of HandleIgnoreRisk: the selection is not moved on
HandleIgnoreRisk_KeepsFocus(riskId) ==
    /\ Len(history) < MaxHistory
    /\ history' = Append(history, historyEntry)
    /\ risks' = markAddressed(risks, riskId)
    /\ UNCHANGED <<currentText, selectedRiskId, isAnimatingSuccess, animatingRiskId,
                   transitionTimeoutRef, timers, loading, requestText, analyses,
                   sessions, guardVars, appVars>>

HandleIgnoreRisk(riskId) ==
    /\ Len(history) < MaxHistory
    /\ history' = Append(history, historyEntry)
    /\ risks' = markAddressed(risks, riskId)
    /\ LET nextRiskId == nextRiskIdOf(sortedActiveRisks, riskId)
       IN  IF nextRiskId # NoId THEN handleSelectRisk(nextRiskId)
                                ELSE selectedRiskId' = NoId
    /\ UNCHANGED <<currentText, isAnimatingSuccess, animatingRiskId,
                   transitionTimeoutRef, timers, loading, requestText, analyses,
                   sessions, guardVars, appVars>>

\* faulty variant of HandleUndo: restores the text but not the risk list
HandleUndo_TextOnly ==
    IF Len(history) = 0 THEN UNCHANGED vars
    ELSE /\ timers' = clearTimeout(timers, transitionTimeoutRef)
         /\ transitionTimeoutRef' = NoTimer
         /\ isAnimatingSuccess' = FALSE
         /\ animatingRiskId' = NoId
         /\ currentText' = history[Len(history)].text
         /\ IF history[Len(history)].selectedId # NoId
            THEN handleSelectRisk(history[Len(history)].selectedId)
            ELSE UNCHANGED selectedRiskId
         /\ history' = SubSeq(history, 1, Len(history) - 1)
         /\ UNCHANGED <<risks, loading, requestText, analyses, sessions, guardVars, appVars>>

\* faulty variant of HandleUndo: the animation is cancelled before the history is looked at
HandleUndo_ClearsFirst ==
    /\ timers' = clearTimeout(timers, transitionTimeoutRef)
    /\ transitionTimeoutRef' = NoTimer
    /\ isAnimatingSuccess' = FALSE
    /\ animatingRiskId' = NoId
    /\ IF Len(history) = 0
       THEN UNCHANGED <<currentText, risks, selectedRiskId, history>>
       ELSE /\ currentText' = history[Len(history)].text
            /\ risks' = history[Len(history)].risks
            /\ IF history[Len(history)].selectedId # NoId
               THEN handleSelectRisk(history[Len(history)].selectedId)
               ELSE UNCHANGED selectedRiskId
            /\ history' = SubSeq(history, 1, Len(history) - 1)
    /\ UNCHANGED <<loading, requestText, analyses, sessions, guardVars, appVars>>

HandleUndo ==
    IF Len(history) = 0 THEN UNCHANGED vars
    ELSE LET prev == history[Len(history)]
         IN  /\ timers' = clearTimeout(timers, transitionTimeoutRef)
             /\ transitionTimeoutRef' = NoTimer
             /\ isAnimatingSuccess' = FALSE
             /\ animatingRiskId' = NoId
             /\ currentText' = prev.text
             /\ risks' = prev.risks
             /\ IF prev.selectedId # NoId THEN handleSelectRisk(prev.selectedId)
                                         ELSE UNCHANGED selectedRiskId
             /\ history' = SubSeq(history, 1, Len(history) - 1)
             /\ UNCHANGED <<loading, requestText, analyses, sessions, guardVars, appVars>>

\* faulty variant of nextIndexOf: stepping back from the first risk stays on the first
nextIndexOf_NoWrapBack(active, selectedId, direction) ==
    IF (IF direction = "next" THEN findIndex(active, selectedId) + 1
                              ELSE findIndex(active, selectedId) - 1) >= Len(active)
    THEN 0
    ELSE IF (IF direction = "next" THEN findIndex(active, selectedId) + 1
                                   ELSE findIndex(active, selectedId) - 1) < 0
    THEN 0
    ELSE (IF direction = "next" THEN findIndex(active, selectedId) + 1
                                ELSE findIndex(active, selectedId) - 1)

\* the index navigateRisk moves to in the active list
nextIndexOf(active, selectedId, direction) ==
    LET currentIndex == findIndex(active, selectedId)
        nextIndex    == IF direction = "next" THEN currentIndex + 1 ELSE currentIndex - 1
    IN  IF nextIndex >= Len(active) THEN 0
        ELSE IF nextIndex < 0 THEN Len(active) - 1
        ELSE nextIndex

\* the body of navigateRisk over the active list it reads
navigateOver(active, direction) ==
    IF Len(active) = 0 THEN UNCHANGED vars
    ELSE /\ handleSelectRisk(active[nextIndexOf(active, selectedRiskId, direction) + 1].id)
         /\ UNCHANGED <<currentText, risks, history, isAnimatingSuccess,
                        animatingRiskId, transitionTimeoutRef, timers, loading,
                        requestText, analyses, sessions, guardVars, appVars>>

\* navigateRisk(direction), direction "next" or "prev"
NavigateRisk(direction) == navigateOver(sortedActiveRisks, direction)

\* faulty variant of jumpOver: the level filter is not applied
jumpOver_AnyLevel(active, level) ==
    IF active = <<>> THEN UNCHANGED vars
    ELSE /\ handleSelectRisk(active[1].id)
         /\ UNCHANGED <<currentText, risks, history, isAnimatingSuccess,
                        animatingRiskId, transitionTimeoutRef, timers, loading,
                        requestText, analyses, sessions, guardVars, appVars>>

\* the body of jumpToFirstRisk over the active list it reads
jumpOver(active, level) ==
    LET hits == SelectSeq(active, LAMBDA r : level = NoLevel \/ r.level = level)
    IN  IF hits = <<>> THEN UNCHANGED vars
        ELSE /\ handleSelectRisk(hits[1].id)
             /\ UNCHANGED <<currentText, risks, history, isAnimatingSuccess,
                            animatingRiskId, transitionTimeoutRef, timers, loading,
                            requestText, analyses, sessions, guardVars, appVars>>

\* jumpToFirstRisk(level?), level = NoLevel when the argument is omitted
JumpToFirstRisk(level) == jumpOver(sortedActiveRisks, level)

\* onClick of a highlighted, non-animating part of the document
ClickPart(part) ==
    /\ part.riskId # NoId
    /\ ~part.isAnimating
    /\ handleSelectRisk(part.riskId)
    /\ UNCHANGED <<currentText, risks, history, isAnimatingSuccess, animatingRiskId,
                   transitionTimeoutRef, timers, loading, requestText, analyses,
                   sessions, guardVars, appVars>>

\* the "back to overview" button: setSelectedRiskId(null)
Deselect ==
    /\ selectedRiskId # NoId
    /\ selectedRiskId' = NoId
    /\ UNCHANGED <<currentText, risks, history, isAnimatingSuccess, animatingRiskId,
                   transitionTimeoutRef, timers, loading, requestText, analyses,
                   sessions, guardVars, appVars>>

\* handleNavigationBack with risks on screen and no reopened session (otherwise
\* the page is left)
HandleNavigationBack ==
    /\ Len(risks) > 0
    /\ ~initialSession
    /\ risks' = <<>>
    /\ history' = <<>>
    /\ UNCHANGED <<currentText, selectedRiskId, isAnimatingSuccess, animatingRiskId,
                   transitionTimeoutRef, timers, loading, requestText, analyses,
                   sessions, guardVars, appVars>>

\* the restart button: setRisks([])
Restart ==
    /\ Len(risks) > 0
    /\ risks' = <<>>
    /\ UNCHANGED <<currentText, selectedRiskId, history, isAnimatingSuccess,
                   animatingRiskId, transitionTimeoutRef, timers, loading, requestText,
                   analyses, sessions, guardVars, appVars>>

----------------------------------------------------------------------------
(* PrivacyGuard: computedData, the masked text and its map *)

\* REGEX_PATTERNS: the ids of the detectors, in catalog order
DetectorIds == <<"money", "email", "date", "phone", "bank">>

\* faulty variant of bracketClass: the target taken literally, no widening
bracketClass_Literal(c) == {c}

\* /(\\\(|U+FF08)/g -> '[\\(U+FF08]' and the same for the closing ones: to a rule pattern
\* a half-width and a full-width parenthesis are one class
bracketClass(c) ==
    IF c \in {"(", FullOpen} THEN {"(", FullOpen}
    ELSE IF c \in {")", FullClose} THEN {")", FullClose}
    ELSE {c}

\* the RegExp built from rule.target: every character escaped, brackets widened to
\* their class; a sequence of character sets
rulePattern(target) == [i \in 1..Len(target) |-> bracketClass(target[i])]

\* the pattern matches text at the 0-based offset pos
matchesAt(text, pat, pos) ==
    /\ pos + Len(pat) <= Len(text)
    /\ \A i \in 1..Len(pat) : text[pos + i] \in pat[i]

\* offset of the leftmost match at or after from, -1 if none
nextMatch(text, pat, from) ==
    LET cands == { q \in from..(Len(text) - Len(pat)) : matchesAt(text, pat, q) }
    IN  IF cands = {} THEN -1 ELSE Min(cands)

\* text.match(regex) with the g flag: the offsets of the matches, left to right,
\* each search resuming behind the previous match
RECURSIVE matchOffsets(_, _, _)
matchOffsets(text, pat, from) ==
    LET q == nextMatch(text, pat, from)
    IN  IF q = -1 THEN <<>> ELSE <<q>> \o matchOffsets(text, pat, q + Len(pat))

\* text.replace(regex, replacement: string) with the g flag: every match gives way
\* to the replacement, in which $$, $&, $` and $' are expanded
RECURSIVE replaceAll(_, _, _, _)
replaceAll(text, pat, replacement, from) ==
    LET q == nextMatch(text, pat, from)
    IN  IF q = -1 THEN SubSeq(text, from + 1, Len(text))
        ELSE SubSeq(text, from + 1, q)
             \o GetSubstitution(SubSeq(text, q + 1, q + Len(pat)), text, q, replacement, 1)
             \o replaceAll(text, pat, replacement, q + Len(pat))

\* map[key] = value on an object kept as a sequence of [key, value] in insertion
\* order: a key already present keeps its place
setKey(map, key, value) ==
    IF \E i \in 1..Len(map) : map[i].key = key
    THEN [i \in 1..Len(map) |-> IF map[i].key = key THEN [key |-> key, value |-> value]
                                                   ELSE map[i]]
    ELSE Append(map, [key |-> key, value |-> value])

\* faulty variant of sortedRules: the rules in the order of the list
sortedRules_AsListed(words) == words

\* [...sensitiveWords].sort((a, b) => b.target.length - a.target.length)
sortedRules(words) == sortByKey(words, [i \in 1..Len(words) |-> 0 - Len(words[i].target)])

\* faulty variant of applyRule: the placeholder goes to the map whether or not
\* the target was found
applyRule_RecordsAlways(data, rule) ==
    IF Len(rule.target) = 0 THEN data
    ELSE LET pat == rulePattern(rule.target)
         IN  [text |-> replaceAll(data.text, pat, rule.placeholder, 0),
              map |-> setKey(data.map, rule.placeholder, rule.target),
              totalCount |-> data.totalCount + Len(matchOffsets(data.text, pat, 0))]

\* the body of sortedRules.forEach for one rule, on the data computed so far
applyRule(data, rule) ==
    IF Len(rule.target) = 0 THEN data
    ELSE LET pat     == rulePattern(rule.target)
             matches == matchOffsets(data.text, pat, 0)
         IN  IF Len(matches) = 0 THEN data
             ELSE [text |-> replaceAll(data.text, pat, rule.placeholder, 0),
                   map |-> setKey(data.map, rule.placeholder, rule.target),
                   totalCount |-> data.totalCount + Len(matches)]

RECURSIVE applyRules(_, _)
applyRules(data, rules) ==
    IF rules = <<>> THEN data
    ELSE applyRules(applyRule(data, Head(rules)), Tail(rules))


\* the decimal digits; DigitChars[d + 1] is the character of the digit d
DigitChars == <<"0", "1", "2", "3", "4", "5", "6", "7", "8", "9">>

Digits == { DigitChars[i] : i \in 1..Len(DigitChars) }

\* `${counter}`: the decimal numeral of a counter below 100
numeral(n) ==
    IF n < 10 THEN <<DigitChars[n + 1]>>
    ELSE <<DigitChars[(n \div 10) + 1], DigitChars[(n % 10) + 1]>>

\* the prefix of each detector's placeholders
detectorPrefix(id) ==
    CASE id = "money" -> <<"[", "A", "M", "O", "U", "N", "T", "_">>
      [] id = "email" -> <<"[", "E", "M", "A", "I", "L", "_">>
      [] id = "date"  -> <<"[", "D", "A", "T", "E", "_">>
      [] id = "phone" -> <<"[", "P", "H", "O", "N", "E", "_">>
      [] id = "bank"  -> <<"[", "B", "A", "N", "K", "_">>

\* the number of digits at and after the 0-based offset pos, at most 3
digitsAt(text, pos) ==
    IF pos + 1 <= Len(text) /\ text[pos + 1] \in Digits
    THEN IF pos + 2 <= Len(text) /\ text[pos + 2] \in Digits
         THEN IF pos + 3 <= Len(text) /\ text[pos + 3] \in Digits THEN 3 ELSE 2
         ELSE 1
    ELSE 0

\* the character at the 0-based offset pos is a digit
digitAt(text, pos) == pos + 1 <= Len(text) /\ text[pos + 1] \in Digits

\* the character at the 0-based offset pos is one of [-/]
dashAt(text, pos) == pos + 1 <= Len(text) /\ text[pos + 1] \in {"-", "/"}

\* \d{4}[-/]\d{1,2}[-/]\d{1,2} at offset pos: the length of the match, the
\* month tried with two digits before one, the day as long as it can be
dateMatchLen(text, pos) ==
    IF /\ \A k \in 0..3 : digitAt(text, pos + k)
       /\ dashAt(text, pos + 4)
    THEN IF digitAt(text, pos + 5) /\ digitAt(text, pos + 6) /\ dashAt(text, pos + 7)
            /\ digitAt(text, pos + 8)
         THEN 9 + (IF digitAt(text, pos + 9) THEN 1 ELSE 0)
         ELSE IF digitAt(text, pos + 5) /\ dashAt(text, pos + 6) /\ digitAt(text, pos + 7)
              THEN 8 + (IF digitAt(text, pos + 8) THEN 1 ELSE 0)
              ELSE 0
    ELSE 0

\* the length of the match of a detector's regex that starts at offset pos, 0 if
\* none.  The texts of the model are written with letters, brackets,
\* parentheses, "$", "-" and digits, never more than ten digits in a row: of
\* the money regex only the branch currency sign, then ([1-9]\d{0,2}|0), can
\* match (no separators, no unit words), of the date regex only the numeric
\* branch without its CJK signs, and the other regexes need "@", seven digits
\* behind a dash, or at least eleven digits
detectorMatchLen(id, text, pos) ==
    IF id = "money" /\ pos + 2 <= Len(text) /\ text[pos + 1] = "$"
                    /\ text[pos + 2] \in Digits
    THEN IF text[pos + 2] = "0" THEN 2 ELSE 1 + digitsAt(text, pos + 1)
    ELSE IF id = "date" THEN dateMatchLen(text, pos)
    ELSE 0

\* text.replace(pattern.regex, match => ...): the matches left to right from
\* offset from, each replaced by prefix, counter, "]" and recorded in the map
RECURSIVE applyDetectorFrom(_, _, _, _, _, _)
applyDetectorFrom(id, text, from, counter, map, total) ==
    LET cands == { q \in from..Len(text) : detectorMatchLen(id, text, q) > 0 }
    IN  IF cands = {}
        THEN [text |-> SubSeq(text, from + 1, Len(text)), map |-> map, totalCount |-> total]
        ELSE LET q           == Min(cands)
                 len         == detectorMatchLen(id, text, q)
                 placeholder == detectorPrefix(id) \o numeral(counter) \o <<"]">>
                 rest        == applyDetectorFrom(id, text, q + len, counter + 1,
                                    setKey(map, placeholder, SubSeq(text, q + 1, q + len)),
                                    total + 1)
             IN  [text |-> SubSeq(text, from + 1, q) \o placeholder \o rest.text,
                  map |-> rest.map, totalCount |-> rest.totalCount]

\* faulty variant of applyDetector: the counter goes on from the number of
\* replacements made so far
applyDetector_SharedCounter(data, id, active) ==
    IF id \in active
    THEN applyDetectorFrom(id, data.text, 0, data.totalCount + 1, data.map, data.totalCount)
    ELSE data

\* the body of REGEX_PATTERNS.forEach for one detector
applyDetector(data, id, active) ==
    IF id \in active
    THEN applyDetectorFrom(id, data.text, 0, 1, data.map, data.totalCount)
    ELSE data

RECURSIVE applyDetectors(_, _, _)
applyDetectors(data, ids, active) ==
    IF ids = <<>> THEN data
    ELSE applyDetectors(applyDetector(data, Head(ids), active), Tail(ids), active)

\* computedData: the manual rules, longest target first, then the enabled detectors
computedDataOf(content, words, active) ==
    applyDetectors(applyRules([text |-> content, map |-> <<>>, totalCount |-> 0],
                              sortedRules(words)),
                   DetectorIds, active)

computedData == computedDataOf(originalContent, sensitiveWords, activeRegexes)

----------------------------------------------------------------------------
(* ReviewInterface: unmaskText *)

\* Array.prototype.join(separator)
RECURSIVE join(_, _)
join(pieces, sep) ==
    IF pieces = <<>> THEN <<>>
    ELSE IF Len(pieces) = 1 THEN pieces[1]
    ELSE pieces[1] \o sep \o join(Tail(pieces), sep)

\* faulty variant of unmaskWith: String.replace with a string pattern, which
\* restores the first occurrence of each placeholder only
RECURSIVE unmaskWith_FirstOccurrence(_, _)
unmaskWith_FirstOccurrence(result, entries) ==
    IF entries = <<>> THEN result
    ELSE unmaskWith_FirstOccurrence(
             replace(result, Head(entries).key, Head(entries).value), Tail(entries))

\* the loop of unmaskText over the map entries still to apply
RECURSIVE unmaskWith(_, _)
unmaskWith(result, entries) ==
    IF entries = <<>> THEN result
    ELSE unmaskWith(join(split(result, Head(entries).key), Head(entries).value),
                    Tail(entries))

\* unmaskText: the keys longest first, each replaced everywhere by its value
unmaskText(text, maskMap) ==
    IF Len(text) = 0 THEN <<>>
    ELSE unmaskWith(text, sortByKey(maskMap, [i \in 1..Len(maskMap) |-> 0 - Len(maskMap[i].key)]))

----------------------------------------------------------------------------
(* PrivacyGuard: the handlers that edit the rules and the detectors *)

\* Date.now().toString(): the ids are creation times, and a new rule goes to the
\* end of the list, so the ids grow along the list.  Only their equality and
\* order can be observed: the list is kept with each id replaced by its rank.
freshId(words) == Len(words) + 1

\* the ids of the rules left after a removal, as ranks again
ranked(words) == [i \in 1..Len(words) |-> [words[i] EXCEPT !.id = i]]

\* the text on screen the user selects in: the masked text or the original
\* (viewMode); handleTextMouseUp drops a selection that holds both "[" and "]"
selectable(selection) ==
    /\ Len(selection) > 0
    /\ ~(includes(selection, <<"[">>) /\ includes(selection, <<"]">>))
    /\ includes(originalContent, selection) \/ includes(computedData.text, selection)

\* addManualRule: a rule for the selected text, in place of the rule with that
\* target if there is one
AddManualRule(selection, customPlaceholder) ==
    /\ selectable(selection)
    /\ Len(customPlaceholder) > 0
    /\ LET existing == { i \in 1..Len(sensitiveWords) : sensitiveWords[i].target = selection }
       IN  IF existing # {}
           THEN sensitiveWords' =
                    [sensitiveWords EXCEPT ![Min(existing)] =
                        [id |-> sensitiveWords[Min(existing)].id, target |-> selection,
                         placeholder |-> customPlaceholder]]
           ELSE /\ Len(sensitiveWords) < MaxRules
                /\ sensitiveWords' =
                       Append(sensitiveWords,
                              [id |-> freshId(sensitiveWords), target |-> selection,
                               placeholder |-> customPlaceholder])
    /\ UNCHANGED <<originalContent, activeRegexes, currentText, risks, selectedRiskId,
                   history, isAnimatingSuccess, animatingRiskId, transitionTimeoutRef,
                   timers, loading, requestText, analyses, sessions, appVars>>

\* removeRule(id)
RemoveRule(id) ==
    /\ sensitiveWords' = ranked(SelectSeq(sensitiveWords, LAMBDA r : r.id # id))
    /\ UNCHANGED <<originalContent, activeRegexes, currentText, risks, selectedRiskId,
                   history, isAnimatingSuccess, animatingRiskId, transitionTimeoutRef,
                   timers, loading, requestText, analyses, sessions, appVars>>

\* saveLibraryWord with a new word in the form (editingWord.id unset)
SaveNewLibraryWord(target, placeholder) ==
    /\ Len(target) > 0
    /\ Len(placeholder) > 0
    /\ Len(sensitiveWords) < MaxRules
    /\ sensitiveWords' = Append(sensitiveWords,
                                [id |-> freshId(sensitiveWords), target |-> target,
                                 placeholder |-> placeholder])
    /\ UNCHANGED <<originalContent, activeRegexes, currentText, risks, selectedRiskId,
                   history, isAnimatingSuccess, animatingRiskId, transitionTimeoutRef,
                   timers, loading, requestText, analyses, sessions, appVars>>

\* saveLibraryWord with a word of the list in the form, its fields edited
SaveEditedLibraryWord(id, target, placeholder) ==
    /\ Len(target) > 0
    /\ Len(placeholder) > 0
    /\ sensitiveWords' =
          [i \in 1..Len(sensitiveWords) |->
              IF sensitiveWords[i].id = id
              THEN [id |-> id, target |-> target, placeholder |-> placeholder]
              ELSE sensitiveWords[i]]
    /\ UNCHANGED <<originalContent, activeRegexes, currentText, risks, selectedRiskId,
                   history, isAnimatingSuccess, animatingRiskId, transitionTimeoutRef,
                   timers, loading, requestText, analyses, sessions, appVars>>

\* deleteLibraryWord(id)
DeleteLibraryWord(id) ==
    /\ sensitiveWords' = ranked(SelectSeq(sensitiveWords, LAMBDA w : w.id # id))
    /\ UNCHANGED <<originalContent, activeRegexes, currentText, risks, selectedRiskId,
                   history, isAnimatingSuccess, animatingRiskId, transitionTimeoutRef,
                   timers, loading, requestText, analyses, sessions, appVars>>

\* toggleRegex(id)
ToggleRegex(id) ==
    /\ activeRegexes' = IF id \in activeRegexes THEN activeRegexes \ {id}
                                                ELSE activeRegexes \cup {id}
    /\ UNCHANGED <<originalContent, sensitiveWords, currentText, risks, selectedRiskId,
                   history, isAnimatingSuccess, animatingRiskId, transitionTimeoutRef,
                   timers, loading, requestText, analyses, sessions, appVars>>

----------------------------------------------------------------------------
(* Specification *)

Accept == \E i \in 1..Len(risks) : HandleAcceptRisk(risks[i])
Ignore == \E i \in 1..Len(risks) : HandleIgnoreRisk(risks[i].id)
Fire == \E t \in timers : TimerFire(t)
Navigate == \E d \in {"next", "prev"} : NavigateRisk(d)
Jump == \E l \in RiskLevel \cup {NoLevel} : JumpToFirstRisk(l)
Click == \E part \in { renderParts[k] : k \in 1..Len(renderParts) } : ClickPart(part)
Analysed == \E content \in Contents : AnalyzeSuccess(rawRisks(content))

\* the first analysis of the contract
AnalyzeFirst == analyses = 0 /\ AnalyzeStart

Next ==
    \/ AnalyzeFirst
    \/ Analysed
    \/ AnalyzeFail
    \/ Accept
    \/ Ignore
    \/ HandleUndo
    \/ Fire
    \/ Navigate
    \/ Jump
    \/ Click
    \/ Deselect
    \/ HandleNavigationBack
    \/ Restart

Spec == Init /\ [][Next]_vars

\* the timer callback runs once its delay has passed
FairSpec == Spec /\ WF_vars(Fire)

----------------------------------------------------------------------------
(* The handlers as the rendered page offers them *)

\* const selectedRisk = risks.find(r => r.id === selectedRiskId) is defined
selectedRiskShown == \E i \in 1..Len(risks) : risks[i].id = selectedRiskId

\* the detail panel shows its buttons: {selectedRisk && (isAnimatingSuccess ? ... : buttons)}
panelButtons == selectedRiskShown /\ ~isAnimatingSuccess

\* the accept button: handleAcceptRisk(selectedRisk)
ClickAccept ==
    /\ panelButtons
    /\ \E i \in 1..Len(risks) : risks[i].id = selectedRiskId /\ HandleAcceptRisk(risks[i])

\* the ignore button: handleIgnoreRisk(selectedRisk.id)
ClickIgnore == panelButtons /\ HandleIgnoreRisk(selectedRiskId)

\* the undo toast, rendered while history.length > 0
ClickUndo == Len(history) > 0 /\ HandleUndo

\* the previous and next buttons of the detail panel
ClickNavigate == panelButtons /\ Navigate

\* the "back to overview" button of the detail panel
ClickDeselect == panelButtons /\ Deselect

\* the overview tiles and the start button, rendered while risks.length > 0
ClickJump == Len(risks) > 0 /\ Jump

UINext ==
    \/ AnalyzeFirst
    \/ Analysed
    \/ AnalyzeFail
    \/ ClickAccept
    \/ ClickIgnore
    \/ ClickUndo
    \/ Fire
    \/ ClickNavigate
    \/ ClickJump
    \/ Click
    \/ ClickDeselect
    \/ HandleNavigationBack
    \/ Restart

UISpec == Init /\ [][UINext]_vars

----------------------------------------------------------------------------
(* Saved sessions: repeated analyses and reopening from the history page *)

\* responses of the analyser over the sessions of a contract: the annotation
\* whose suggestion rewrites the contract, and responses without a usable array
SessionContents ==
    { [form |-> "json",  value |-> jsonArray(<<RiskBC>>)],
      [form |-> "none",  value |-> jsonNull],
      [form |-> "prose", value |-> jsonNull],
      [form |-> "json",  value |-> jsonObject({<<"risks", <<RiskBC>> >>})] }

\* the text the page shows for a session: its masked text when it has one,
\* else the content of its contract
sessionText(session) ==
    IF session.privacyData.isMasked /\ session.privacyData.maskedContent # <<>>
    THEN session.privacyData.maskedContent
    ELSE session.content

\* loadHistory and the mount of ReviewInterface on the session, no request in
\* flight: fresh component state, then the effect on initialSession
LoadHistory(session) ==
    /\ ~loading
    /\ originalContent' = session.content
    /\ initialSession' = TRUE
    /\ privacyData' = session.privacyData
    /\ isMaskedView' = session.privacyData.isMasked
    /\ currentText' = sessionText(session)
    /\ risks' = session.risks
    /\ selectedRiskId' = NoId
    /\ history' = <<>>
    /\ isAnimatingSuccess' = FALSE
    /\ animatingRiskId' = NoId
    /\ transitionTimeoutRef' = NoTimer
    /\ timers' = {}
    /\ UNCHANGED <<loading, requestText, analyses, sessions, sensitiveWords,
                   activeRegexes>>

\* the review page mounted on a contract that was masked (onComplete, the
\* masked text being the contract where no rule and no detector matched) or
\* not (onSkip)
SessionInit ==
    /\ currentText \in Documents
    /\ risks = <<>>
    /\ selectedRiskId = NoId
    /\ history = <<>>
    /\ isAnimatingSuccess = FALSE
    /\ animatingRiskId = NoId
    /\ transitionTimeoutRef = NoTimer
    /\ timers = {}
    /\ loading = FALSE
    /\ requestText = <<>>
    /\ analyses = 0
    /\ sessions = <<>>
    /\ originalContent = currentText
    /\ sensitiveWords = <<>>
    /\ activeRegexes = {}
    /\ privacyData \in {NoPrivacy, Masked(currentText)}
    /\ initialSession = FALSE
    /\ isMaskedView = privacyData.isMasked

SessionAnalysed == \E content \in SessionContents : AnalyzeSuccess(rawRisks(content))
Reopen == \E i \in 1..Len(sessions) : LoadHistory(sessions[i])

SessionNext ==
    \/ AnalyzeStart
    \/ SessionAnalysed
    \/ AnalyzeFail
    \/ Accept
    \/ Ignore
    \/ HandleUndo
    \/ Fire
    \/ Navigate
    \/ Jump
    \/ Click
    \/ Deselect
    \/ HandleNavigationBack
    \/ Restart
    \/ Reopen

SessionSpec == SessionInit /\ [][SessionNext]_vars

----------------------------------------------------------------------------
(* The masking page *)

\* PrivacyGuard mounted on an uploaded contract: every detector enabled, the
\* parent's rule list still empty; the review page is not open
MaskInit ==
    /\ originalContent \in MaskDocuments
    /\ sensitiveWords = <<>>
    /\ activeRegexes = { DetectorIds[i] : i \in 1..Len(DetectorIds) }
    /\ currentText = originalContent
    /\ risks = <<>>
    /\ selectedRiskId = NoId
    /\ history = <<>>
    /\ isAnimatingSuccess = FALSE
    /\ animatingRiskId = NoId
    /\ transitionTimeoutRef = NoTimer
    /\ timers = {}
    /\ loading = FALSE
    /\ requestText = <<>>
    /\ analyses = 0
    /\ sessions = <<>>
    /\ privacyData = NoPrivacy
    /\ initialSession = FALSE
    /\ isMaskedView = privacyData.isMasked

AddRule == \E t \in MaskTargets, p \in MaskPlaceholders : AddManualRule(t, p)
Remove == \E i \in 1..Len(sensitiveWords) : RemoveRule(sensitiveWords[i].id)
SaveNew == \E t \in MaskTargets, p \in MaskPlaceholders : SaveNewLibraryWord(t, p)
SaveEdited ==
    \E i \in 1..Len(sensitiveWords), t \in MaskTargets, p \in MaskPlaceholders :
        SaveEditedLibraryWord(sensitiveWords[i].id, t, p)
Delete == \E i \in 1..Len(sensitiveWords) : DeleteLibraryWord(sensitiveWords[i].id)
Toggle == \E i \in 1..Len(DetectorIds) : ToggleRegex(DetectorIds[i])

MaskNext ==
    \/ AddRule
    \/ Remove
    \/ SaveNew
    \/ SaveEdited
    \/ Delete
    \/ Toggle

MaskSpec == MaskInit /\ [][MaskNext]_vars

\* a contract with two amounts and a date between them, each next to a
\* character a rule can take
DetectDocuments ==
    { <<"$", "5", "A", "2", "0", "2", "4", "-", "1", "-", "2", "B", "$", "7">> }

\* PrivacyGuard mounted on a contract with matches of two detectors
DetectInit ==
    /\ originalContent \in DetectDocuments
    /\ sensitiveWords = <<>>
    /\ activeRegexes = { DetectorIds[i] : i \in 1..Len(DetectorIds) }
    /\ currentText = originalContent
    /\ risks = <<>>
    /\ selectedRiskId = NoId
    /\ history = <<>>
    /\ isAnimatingSuccess = FALSE
    /\ animatingRiskId = NoId
    /\ transitionTimeoutRef = NoTimer
    /\ timers = {}
    /\ loading = FALSE
    /\ requestText = <<>>
    /\ analyses = 0
    /\ sessions = <<>>
    /\ privacyData = NoPrivacy
    /\ initialSession = FALSE
    /\ isMaskedView = privacyData.isMasked

\* the page used through the text selection and the detector switches
DetectNext ==
    \/ AddRule
    \/ Remove
    \/ Toggle

DetectSpec == DetectInit /\ [][DetectNext]_vars

----------------------------------------------------------------------------
(* Types *)

TypeOK ==
    /\ selectedRiskId \in Nat
    /\ isAnimatingSuccess \in BOOLEAN
    /\ loading \in BOOLEAN
    /\ Len(history) <= MaxHistory
    /\ \A i \in 1..Len(risks) : risks[i].isAddressed \in BOOLEAN

----------------------------------------------------------------------------
(* Vocabulary of the properties *)

Last(seq) == seq[Len(seq)]
Front(seq) == SubSeq(seq, 1, Len(seq) - 1)

\* an undo that finds something to undo
UndoStep == Len(history) > 0 /\ HandleUndo

\* sub occurs in s: s is some prefix, then sub, then some suffix
Occurs(s, sub) ==
    \E i \in 0..Len(s) : \E j \in i..Len(s) :
        s = SubSeq(s, 1, i) \o sub \o SubSeq(s, j + 1, Len(s))

\* the offsets at which sub occurs in s
Offsets(s, sub) ==
    { i \in 0..Len(s) : i + Len(sub) <= Len(s) /\ SubSeq(s, i + 1, i + Len(sub)) = sub }

IsActive(r) == \E k \in 1..Len(sortedActiveRisks) : sortedActiveRisks[k].id = r.id

\* sub is a non-empty part of s, shorter than s
ProperPart(sub, s) == Len(sub) > 0 /\ Len(sub) < Len(s) /\ Occurs(s, sub)

\* the rules in the order computedData applies them
RulesInOrder == sortedRules(sensitiveWords)

\* the text, map and count the k-th rule in application order is applied to
DataBefore(k) ==
    applyRules([text |-> originalContent, map |-> <<>>, totalCount |-> 0],
               SubSeq(RulesInOrder, 1, k - 1))

\* the text, map and count after the last rule, before the detectors
DataAfterRules == DataBefore(Len(RulesInOrder) + 1)

----------------------------------------------------------------------------
(* C1: every accept and ignore keeps the text and the risk list it found on top
   of the history, and every undo puts back the text and the risk list (all
   isAddressed flags included) of the entry on top and removes it, so that j
   undos after k accepts or ignores walk back through the states before each *)
C1_UndoRestoresTextAndRisks ==
    [][ /\ (Accept \/ Ignore) =>
            /\ Len(history') = Len(history) + 1
            /\ Front(history') = history
            /\ Last(history').text = currentText
            /\ Last(history').risks = risks
        /\ UndoStep =>
            /\ currentText' = Last(history).text
            /\ risks' = Last(history).risks
            /\ history' = Front(history) ]_vars

\* an accept changed the text, a later undo (the only step that clears the timer
\* reference) took back a younger step, and an older entry is still on the history
C1_Witness ==
    /\ Len(history) > 0
    /\ transitionTimeoutRef = NoTimer
    /\ currentText # requestText

C3_AcceptReplacesVerbatim ==
    [][ \A i \in 1..Len(risks) :
          (HandleAcceptRisk(risks[i]) /\ Occurs(currentText, risks[i].originalText)) =>
             LET first == Min(Offsets(currentText, risks[i].originalText))
             IN  currentText' =
                    SubSeq(currentText, 1, first)
                    \o risks[i].suggestedText
                    \o SubSeq(currentText, first + Len(risks[i].originalText) + 1,
                              Len(currentText)) ]_vars

C4_Follower(active, riskId) ==
    LET p == CHOOSE k \in 1..Len(active) : active[k].id = riskId
    IN  IF Len(active) = 1 THEN NoId
        ELSE IF p = Len(active) THEN active[1].id
        ELSE active[p + 1].id

(* C4: accepting or ignoring an active risk r computes as next focus the risk
   after r in the active ordering of the state the action starts in, the first
   risk of that ordering when r is its last, and none when r is the only active
   risk; accept hands it to the timer it schedules, ignore selects it at once *)
C4_NextFocusFollows ==
    [][ \A i \in 1..Len(risks) :
          IsActive(risks[i]) =>
            /\ HandleAcceptRisk(risks[i]) =>
                 \E t \in timers' :
                    /\ t.id = transitionTimeoutRef'
                    /\ t.nextRiskId = C4_Follower(sortedActiveRisks, risks[i].id)
            /\ HandleIgnoreRisk(risks[i].id) =>
                 selectedRiskId' = C4_Follower(sortedActiveRisks, risks[i].id) ]_vars

\* the accept of the last of several active risks is in its animation window and
\* its timer carries the first active risk of the state the accept started in
C4_Witness ==
    /\ Len(history) > 0
    /\ animatingRiskId # NoId
    /\ LET before == sortedActiveRisksOf(Last(history).risks, Last(history).text)
       IN  /\ Len(before) > 1
           /\ before[Len(before)].id = animatingRiskId
           /\ \E t \in timers : t.nextRiskId = before[1].id

(* C5: an undo that pops an entry leaves no accept animation behind: the
   animation flags are cleared, the timer reference is null and no scheduled
   focus change stays pending, so none can set selectedRiskId later *)
C5_UndoCancelsAnimation ==
    [][ UndoStep =>
          /\ ~isAnimatingSuccess'
          /\ animatingRiskId' = NoId
          /\ transitionTimeoutRef' = NoTimer
          /\ timers' = {} ]_vars

\* an accept is in its animation window, its focus change differs from the
\* selection an undo would restore, and there is an entry to undo
C5_Witness ==
    /\ Len(history) > 0
    /\ isAnimatingSuccess
    /\ \E t \in timers : t.nextRiskId # Last(history).selectedId

(* C6: while the timer of an accept is pending with next focus n, either the
   history changes (an undo, a further accept or ignore, a reset) or the run
   reaches a state with the animation cleared, no timer pending and
   selectedRiskId = n (NoId when there is no next risk) *)
C6_TimerSetsNextFocus ==
    \A n \in 0..Cardinality(Templates) : \A k \in 1..MaxHistory :
        ((\E t \in timers : t.nextRiskId = n) /\ Len(history) = k)
            ~> \/ Len(history) # k
               \/ /\ timers = {}
                  /\ ~isAnimatingSuccess
                  /\ animatingRiskId = NoId
                  /\ selectedRiskId = n

\* the timer of an accept has run: the animation is over, the accepted risk is
\* addressed although nothing was undone, and its successor is selected
C6_Witness ==
    /\ Len(history) > 0
    /\ timers = {}
    /\ transitionTimeoutRef # NoTimer
    /\ ~isAnimatingSuccess
    /\ selectedRiskId # NoId
    /\ selectedRiskId # Last(history).selectedId

RECURSIVE ConcatTexts(_)
ConcatTexts(parts) ==
    IF parts = <<>> THEN <<>> ELSE Head(parts).text \o ConcatTexts(Tail(parts))

(* C7: in every reachable state, with or without a risk in accept animation,
   the texts of the display parts, joined in order, are exactly currentText *)
C7_SegmentsCoverText == ConcatTexts(renderParts) = currentText

\* a rendering with a highlighted active risk and an animating part around plain text
C7_Mixed(parts) ==
    /\ \E k \in 1..Len(parts) : parts[k].isAnimating
    /\ \E k \in 1..Len(parts) : parts[k].riskId # NoId /\ ~parts[k].isAnimating
    /\ \E k \in 1..Len(parts) : parts[k].riskId = NoId /\ parts[k].text # <<>>

C7_Witness == C7_Mixed(renderParts)

\* the parts tagged with one candidate (a risk, in animation or not)
C8_PartsOf(parts, seg) ==
    { k \in 1..Len(parts) :
        parts[k].riskId = seg.id /\ parts[k].isAnimating = seg.isAnimating }

C8_AtMostOnePart(segs, parts) ==
    \A i \in 1..Len(segs) : Cardinality(C8_PartsOf(parts, segs[i])) <= 1

(* C8: of several occurrences of a candidate's substring in still-plain text
   only the first becomes a highlighted part of that candidate, the later ones
   stay plain, so in every rendering no candidate owns two parts *)
C8_OnlyFirstOccurrenceHighlighted ==
    C8_AtMostOnePart(sortedSegments(risks, currentText, animatingRiskId), renderParts)

\* the risks activeRisks() has to return: not addressed, originalText in the text
C9_ActiveSet == { i \in 1..Len(risks) :
                    ~risks[i].isAddressed /\ Occurs(currentText, risks[i].originalText) }

C9_Offset(r) == Min(Offsets(currentText, r.originalText))

\* the arrangements of the risk array
C9_Permutations ==
    { p \in [1..Len(risks) -> 1..Len(risks)] :
        \A i, j \in 1..Len(risks) : i # j => p[i] # p[j] }

C9_ExactlyTheActiveSet ==
    /\ \A k \in 1..Len(sortedActiveRisks) :
          \E i \in C9_ActiveSet : risks[i] = sortedActiveRisks[k]
    /\ \A i \in C9_ActiveSet :
          \E k \in 1..Len(sortedActiveRisks) : risks[i] = sortedActiveRisks[k]
    /\ Len(sortedActiveRisks) = Cardinality(C9_ActiveSet)

C9_Ascending ==
    \A k \in 1..(Len(sortedActiveRisks) - 1) :
        C9_Offset(sortedActiveRisks[k]) <= C9_Offset(sortedActiveRisks[k + 1])

(* C9: activeRisks() is the set of unaddressed risks
   whose originalText occurs in the text, ascending by first-occurrence offset,
   and the same sequence for every order of the risk array *)
C9_ActiveOrderIndependentOfInput ==
    /\ C9_ExactlyTheActiveSet
    /\ C9_Ascending
    /\ \A p \in C9_Permutations :
          sortedActiveRisksOf([i \in 1..Len(risks) |-> risks[p[i]]], currentText)
              = sortedActiveRisks

(* C9 with equal offsets told apart: activeRisks() is the set of unaddressed risks whose
   originalText occurs in the text, in non-decreasing order of first-occurrence
   offset; risks with the same offset keep their order in the risk array, and
   the order does not depend on the risk array when the offsets all differ *)
C9_ActiveOrderByOffset ==
    /\ C9_ExactlyTheActiveSet
    /\ C9_Ascending
    /\ \A k \in 1..(Len(sortedActiveRisks) - 1) :
          C9_Offset(sortedActiveRisks[k]) = C9_Offset(sortedActiveRisks[k + 1])
              => findIndex(risks, sortedActiveRisks[k].id)
                    < findIndex(risks, sortedActiveRisks[k + 1].id)
    /\ (\A i, j \in C9_ActiveSet : i # j => C9_Offset(risks[i]) # C9_Offset(risks[j]))
          => \A p \in C9_Permutations :
                sortedActiveRisksOf([i \in 1..Len(risks) |-> risks[p[i]]], currentText)
                    = sortedActiveRisks

\* after an edit the active risks stand in the risk array against their offsets
C9_Witness ==
    /\ Len(history) > 0
    /\ \E i, j \in C9_ActiveSet :
          i < j /\ C9_Offset(risks[i]) > C9_Offset(risks[j])

(* C10: in every reachable state a risk of the list is in visibleRisks() if and
   only if it is addressed or its originalText occurs in currentText *)
C10_VisibleIffAddressedOrPresent ==
    \A i \in 1..Len(risks) :
        (\E k \in 1..Len(visibleRisks) : visibleRisks[k] = risks[i])
            <=> (risks[i].isAddressed \/ Occurs(currentText, risks[i].originalText))

\* one addressed risk is visible although its text is gone, another risk is
\* hidden because its text is gone and it is not addressed
C10_Witness ==
    /\ \E i \in 1..Len(risks) :
          /\ risks[i].isAddressed
          /\ ~Occurs(currentText, risks[i].originalText)
          /\ \E k \in 1..Len(visibleRisks) : visibleRisks[k] = risks[i]
    /\ \E i \in 1..Len(risks) :
          /\ ~risks[i].isAddressed
          /\ ~Occurs(currentText, risks[i].originalText)
          /\ ~\E k \in 1..Len(visibleRisks) : visibleRisks[k] = risks[i]

\* risks[j] is listed in the sequence rs
C11_Listed(rs, j) == \E k \in 1..Len(rs) : rs[k].id = risks[j].id

(* C11: when an accept takes every occurrence of another, unaddressed risk's
   originalText out of the text, that risk is afterwards in neither
   visibleRisks() nor activeRisks(), and its record is still in the risk list,
   unchanged *)
C11_ConsumedRiskHiddenNotDeleted ==
    [][ \A i, j \in 1..Len(risks) :
          ( /\ HandleAcceptRisk(risks[i])
            /\ i # j
            /\ ~risks[j].isAddressed
            /\ Occurs(currentText, risks[j].originalText)
            /\ ~Occurs(currentText', risks[j].originalText) )
          => /\ Len(risks') = Len(risks)
             /\ risks'[j] = risks[j]
             /\ ~C11_Listed(visibleRisksOf(risks', currentText'), j)
             /\ ~C11_Listed(sortedActiveRisksOf(risks', currentText'), j) ]_vars

\* an accept has just taken the text of an unaddressed risk out of the document
C11_Witness ==
    /\ Len(history) > 0
    /\ animatingRiskId # NoId
    /\ \E j \in 1..Len(risks) :
          /\ risks[j].id # animatingRiskId
          /\ ~risks[j].isAddressed
          /\ Occurs(Last(history).text, risks[j].originalText)
          /\ ~Occurs(currentText, risks[j].originalText)

(* C12: an accept of a risk whose originalText does not occur in the text
   leaves the text as it is and still marks the risk addressed; the accept runs
   as any other (history entry pushed, animation started) *)
C12_AcceptOfMissingText ==
    [][ \A i \in 1..Len(risks) :
          (HandleAcceptRisk(risks[i]) /\ ~Occurs(currentText, risks[i].originalText))
          => /\ currentText' = currentText
             /\ Len(risks') = Len(risks)
             /\ risks'[i].isAddressed
             /\ risks'[i].id = risks[i].id
             /\ Len(history') = Len(history) + 1
             /\ animatingRiskId' = risks[i].id ]_vars

\* the risk in accept animation was accepted while its text was not in the document
C12_Witness ==
    /\ Len(history) > 0
    /\ isAnimatingSuccess
    /\ currentText = Last(history).text
    /\ \E i \in 1..Len(risks) :
          /\ risks[i].id = animatingRiskId
          /\ risks[i].isAddressed
          /\ ~Occurs(Last(history).text, risks[i].originalText)
          /\ \E k \in 1..Len(Last(history).risks) :
                /\ Last(history).risks[k].id = animatingRiskId
                /\ ~Last(history).risks[k].isAddressed

(* C13: an ignore pushes one history entry, marks the risk addressed and no
   other, leaves the text, the animation flags and the timers as they are, and
   sets selectedRiskId in the same step: to the follower of an active risk, to
   none for a risk that is not active *)
C13_IgnoreFrame ==
    [][ \A i \in 1..Len(risks) :
          HandleIgnoreRisk(risks[i].id)
          => /\ Len(history') = Len(history) + 1
             /\ Front(history') = history
             /\ Len(risks') = Len(risks)
             /\ \A j \in 1..Len(risks) :
                   risks'[j] = IF risks[j].id = risks[i].id
                               THEN [risks[j] EXCEPT !.isAddressed = TRUE]
                               ELSE risks[j]
             /\ currentText' = currentText
             /\ selectedRiskId' = IF IsActive(risks[i])
                                  THEN C4_Follower(sortedActiveRisks, risks[i].id)
                                  ELSE NoId
             /\ UNCHANGED <<isAnimatingSuccess, animatingRiskId, timers,
                            transitionTimeoutRef>> ]_vars

\* the last step on the history was an ignore that moved the selection on
C13_Witness ==
    /\ Len(history) = 1
    /\ transitionTimeoutRef = NoTimer
    /\ currentText = Last(history).text
    /\ risks # Last(history).risks
    /\ ~isAnimatingSuccess
    /\ selectedRiskId # NoId
    /\ selectedRiskId # Last(history).selectedId

(* C14: an undo on an empty history changes nothing: text, risks, selection,
   history, animation flags, timer reference and pending timers stay as they are *)
C14_UndoOnEmptyHistory ==
    [][ (Len(history) = 0 /\ HandleUndo) => UNCHANGED vars ]_vars

\* the history is empty while an accept animation and its timer are pending
C14_Witness ==
    /\ Len(history) = 0
    /\ isAnimatingSuccess
    /\ animatingRiskId # NoId
    /\ transitionTimeoutRef # NoTimer
    /\ timers # {}

\* the steps that empty the history
C15_Reset == (Analysed \/ HandleNavigationBack) /\ history' = <<>>

(* C15: every accept and every ignore appends exactly one entry holding the
   text, the risk list and the selection of the state it starts in; an undo on
   a non-empty history removes exactly the last entry; a reset empties the
   history; no other step changes it.  The length of the history is thus the
   number of accepts and ignores less the undos since the last reset *)
C15_HistoryCountsActions ==
    [][ /\ (Accept \/ Ignore) =>
            history' = Append(history, [text |-> currentText, risks |-> risks,
                                        selectedId |-> selectedRiskId])
        /\ UndoStep => history' = Front(history)
        /\ history' # history => (Accept \/ Ignore \/ UndoStep \/ C15_Reset) ]_vars

\* two entries, pushed with different selections, the older one with a selection
C15_Witness ==
    /\ Len(history) = 2
    /\ history[1].selectedId # NoId
    /\ history[2].selectedId # history[1].selectedId
    /\ history[2].risks # history[1].risks

\* the isAddressed flag of the risk with this id in rs
C16_Flag(rs, id) == rs[CHOOSE k \in 1..Len(rs) : rs[k].id = id].isAddressed

\* the ids of rs
C16_Ids(rs) == { rs[k].id : k \in 1..Len(rs) }

(* C16: the isAddressed flag of a risk goes from false to true only in an
   accept or ignore of that risk, goes from true to false only in an undo that
   restores a history snapshot, and accept and ignore are only ever applied to
   a risk that is not addressed yet, so the flag is set at most once between
   undos *)
C16_AddressedLifecycle ==
    [][ /\ \A id \in C16_Ids(risks) \cap C16_Ids(risks') :
            /\ (~C16_Flag(risks, id) /\ C16_Flag(risks', id))
                  => \E i \in 1..Len(risks) :
                        /\ risks[i].id = id
                        /\ (HandleAcceptRisk(risks[i]) \/ HandleIgnoreRisk(id))
            /\ (C16_Flag(risks, id) /\ ~C16_Flag(risks', id))
                  => (UndoStep /\ risks' = Last(history).risks)
        /\ \A i \in 1..Len(risks) :
              (HandleAcceptRisk(risks[i]) \/ HandleIgnoreRisk(risks[i].id))
                  => ~risks[i].isAddressed ]_vars

\* an accept changed the text and stays on the history, an undo took back the
\* step after it, and the risk that step had addressed is selected, open again
C16_Witness ==
    /\ Len(history) = 1
    /\ transitionTimeoutRef = NoTimer
    /\ currentText # requestText
    /\ \E i \in 1..Len(risks) : risks[i].isAddressed
    /\ \E i \in 1..Len(risks) : ~risks[i].isAddressed /\ risks[i].id = selectedRiskId

\* the position of the selection in the active list, 0 when it is not in it
C17_Position(active) ==
    IF \E k \in 1..Len(active) : active[k].id = selectedRiskId
    THEN CHOOSE k \in 1..Len(active) : active[k].id = selectedRiskId
    ELSE 0

C17_Target(active, direction) ==
    LET p == C17_Position(active)
    IN  IF direction = "next"
        THEN (IF p = 0 \/ p = Len(active) THEN active[1].id ELSE active[p + 1].id)
        ELSE (IF p = 0 \/ p = 1 THEN active[Len(active)].id ELSE active[p - 1].id)

(* C17: navigate over a non-empty active list selects the first active risk on
   next and the last on prev when the selection is not in the list, otherwise
   the neighbour in the direction asked for, from the last round to the first
   and from the first round to the last, and changes nothing else; over an
   empty active list it changes nothing *)
C17_NavigateMovesOneStep ==
    [][ \A d \in {"next", "prev"} :
          NavigateRisk(d)
          => IF Len(sortedActiveRisks) = 0 THEN UNCHANGED vars
             ELSE /\ selectedRiskId' = C17_Target(sortedActiveRisks, d)
                  /\ UNCHANGED <<currentText, risks, history, isAnimatingSuccess,
                                 animatingRiskId, transitionTimeoutRef, timers>> ]_vars

\* the last of three active risks is selected and nothing has been accepted,
\* ignored or undone: one step back from the first, or on from the second
C17_Witness ==
    /\ Len(sortedActiveRisks) = 3
    /\ selectedRiskId = sortedActiveRisks[3].id
    /\ history = <<>>
    /\ transitionTimeoutRef = NoTimer

\* the active risks the filter lets through, NoLevel for no filter
C18_Matches(active, level) ==
    { k \in 1..Len(active) : level = NoLevel \/ active[k].level = level }

(* C18: selectFirst selects the first risk in active order whose level is the
   one asked for, any level when none is asked for, and changes nothing else;
   when no active risk matches, the call leaves the selection as it is *)
C18_JumpSelectsFirstMatch ==
    [][ \A l \in RiskLevel \cup {NoLevel} :
          JumpToFirstRisk(l)
          => IF C18_Matches(sortedActiveRisks, l) = {} THEN UNCHANGED vars
             ELSE /\ selectedRiskId' =
                        sortedActiveRisks[Min(C18_Matches(sortedActiveRisks, l))].id
                  /\ UNCHANGED <<currentText, risks, history, isAnimatingSuccess,
                                 animatingRiskId, transitionTimeoutRef, timers>> ]_vars

\* a risk that is not the first active one, and the only one of its level, is
\* selected before any accept, ignore or undo
C18_Witness ==
    /\ Len(sortedActiveRisks) = 3
    /\ selectedRiskId = sortedActiveRisks[2].id
    /\ sortedActiveRisks[1].level # sortedActiveRisks[2].level
    /\ history = <<>>
    /\ transitionTimeoutRef = NoTimer

----------------------------------------------------------------------------
(* C19: as stated, with no detector enabled and rules whose targets do not
   overlap in the document, unmasking the masked text with its map gives the
   document back. *)

\* the masking result and its unmasking, as handed to the review page
C19_Unmasked == unmaskText(computedData.text, computedData.map)

\* no occurrence of one rule's target in the document shares a character with
\* an occurrence of another rule's target
C19_NonOverlapping ==
    \A i, j \in 1..Len(sensitiveWords) :
        i # j =>
            \A p \in Offsets(originalContent, sensitiveWords[i].target) :
                \A q \in Offsets(originalContent, sensitiveWords[j].target) :
                    \/ p + Len(sensitiveWords[i].target) <= q
                    \/ q + Len(sensitiveWords[j].target) <= p

C19_WordChars == {"A", "B", "P", "Q", "_"} \cup Digits

C19_Token(placeholder) ==
    /\ Len(placeholder) >= 3
    /\ placeholder[1] = "["
    /\ placeholder[Len(placeholder)] = "]"
    /\ \A k \in 2..(Len(placeholder) - 1) : placeholder[k] \in C19_WordChars

C19_Holds(s, chars) == \E k \in 1..Len(s) : s[k] \in chars

C19_Scope ==
    /\ ~C19_Holds(originalContent, {"[", "]"})
    /\ \A i \in 1..Len(sensitiveWords) :
          /\ ~C19_Holds(sensitiveWords[i].target, {"(", ")", FullOpen, FullClose, "[", "]"})
          /\ C19_Token(sensitiveWords[i].placeholder)
          /\ \A j \in 1..Len(sensitiveWords) :
                /\ ~Occurs(sensitiveWords[j].placeholder, sensitiveWords[i].target)
                /\ i # j => sensitiveWords[i].placeholder # sensitiveWords[j].placeholder

----------------------------------------------------------------------------
(* C20: in every masking result, whatever the document, the rules and the
   enabled detectors, each key of the map occurs in the masked text. *)

C20_KeysOccurInMaskedText ==
    \A i \in 1..Len(computedData.map) :
        Occurs(computedData.text, computedData.map[i].key)

----------------------------------------------------------------------------
(* C21: the rules are applied by descending target length, rules of equal
   length in the order of the list.  So when the target of one rule is a part
   of the longer target of another, the longer rule is applied first, each
   occurrence of the longer target in the text it is applied to gives way to
   what the longer rule writes for its placeholder, and none is left, whole or
   in part, for the shorter rule. *)

\* masking by the rule alone, as the rule's step does it
C21_Step(text, rule) == replaceAll(text, rulePattern(rule.target), rule.placeholder, 0)

\* what text.replace writes for the placeholder of the rule at a match
C21_Written(text, rule, p) ==
    GetSubstitution(SubSeq(text, p + 1, p + Len(rule.target)), text, p, rule.placeholder, 1)

C21_Order ==
    /\ Len(RulesInOrder) = Len(sensitiveWords)
    /\ \A i \in 1..Len(sensitiveWords) :
          \E k \in 1..Len(RulesInOrder) : RulesInOrder[k] = sensitiveWords[i]
    /\ \A k \in 1..(Len(RulesInOrder) - 1) :
          \/ Len(RulesInOrder[k].target) > Len(RulesInOrder[k + 1].target)
          \/ /\ Len(RulesInOrder[k].target) = Len(RulesInOrder[k + 1].target)
             /\ RulesInOrder[k].id < RulesInOrder[k + 1].id

C21_LongerWins ==
    \A k, m \in 1..Len(RulesInOrder) :
        ProperPart(RulesInOrder[m].target, RulesInOrder[k].target) =>
            LET longer == RulesInOrder[k]
                before == DataBefore(k).text
                after  == DataBefore(k + 1).text
            IN  /\ k < m
                /\ \A p \in Offsets(before, longer.target) :
                      after = C21_Step(SubSeq(before, 1, p), longer)
                              \o C21_Written(before, longer, p)
                              \o C21_Step(SubSeq(before, p + Len(longer.target) + 1,
                                                 Len(before)), longer)
                /\ Offsets(DataBefore(m).text, longer.target) = {}

----------------------------------------------------------------------------
(* C22: a rule whose target does not occur, in either parenthesis width, in
   the text it is applied to is skipped: the text, the map and the count of
   replacements are after it what they were before it. *)

\* the characters a and b are equal, or the same parenthesis in two widths
C22_SameCharacter(a, b) ==
    \/ a = b
    \/ {a, b} = {"(", FullOpen}
    \/ {a, b} = {")", FullClose}

\* the target occurs in the text at offset p, whatever the width of its parentheses
C22_OccursAt(text, target, p) ==
    /\ p + Len(target) <= Len(text)
    /\ \A i \in 1..Len(target) : C22_SameCharacter(text[p + i], target[i])

C22_Absent(text, target) == \A p \in 0..Len(text) : ~C22_OccursAt(text, target, p)

C22_AbsentTargetIsSkipped ==
    \A k \in 1..Len(RulesInOrder) :
        C22_Absent(DataBefore(k).text, RulesInOrder[k].target) =>
            DataBefore(k + 1) = DataBefore(k)

\* the second rule in application order finds nothing to replace after the
\* first has replaced twice, and the map has the entry of the first only
C22_Witness ==
    /\ Len(RulesInOrder) = 2
    /\ DataBefore(2).totalCount = 2
    /\ C22_Absent(DataBefore(2).text, RulesInOrder[2].target)
    /\ RulesInOrder[2].placeholder # RulesInOrder[1].placeholder
    /\ DataAfterRules.map = <<[key |-> RulesInOrder[1].placeholder,
                                value |-> RulesInOrder[1].target]>>
    /\ DataAfterRules.totalCount = 2

----------------------------------------------------------------------------
(* C23: a rule whose target holds a parenthesis, full-width or half-width,
   matches the target written with either width at each parenthesis: every
   such occurrence in the text the rule is applied to gives way to what the
   rule writes for its placeholder, none is left, and the rule is recorded
   with one replacement for each. *)

C23_Parentheses == {"(", ")", FullOpen, FullClose}

C23_HasParenthesis(target) == \E i \in 1..Len(target) : target[i] \in C23_Parentheses

\* the offsets at which the target occurs in the text, in either width
C23_Occurrences(text, target) == { p \in 0..Len(text) : C22_OccursAt(text, target, p) }

----------------------------------------------------------------------------
(* C24: as stated, unmasking twice with one map gives what unmasking once
   gives, for any text and map; here for the masked text and the map the
   masking page hands to the review page. *)

C24_Once == unmaskText(computedData.text, computedData.map)

C24_Twice == unmaskText(C24_Once, computedData.map)

C24_UnmaskIsIdempotent == C24_Twice = C24_Once

(* C24 for placeholder tokens: unmasking twice with one map gives what
   unmasking once gives, for any text and map such that every key is a token
   "[NAME]" with no bracket in NAME, no value holds "[" or "]", and every "["
   and "]" of the text belongs to an occurrence of a key. *)

C24_Brackets == {"[", "]"}

C24_Token(key) ==
    /\ Len(key) >= 3
    /\ key[1] = "["
    /\ key[Len(key)] = "]"
    /\ \A i \in 2..(Len(key) - 1) : key[i] \notin C24_Brackets

\* the i-th character of the text lies in an occurrence of a key of the map
C24_InKey(text, map, i) ==
    \E k \in 1..Len(map) : \E p \in Offsets(text, map[k].key) :
        p < i /\ i <= p + Len(map[k].key)

C24_Scope(text, map) ==
    /\ \A k \in 1..Len(map) :
          /\ C24_Token(map[k].key)
          /\ \A i \in 1..Len(map[k].value) : map[k].value[i] \notin C24_Brackets
    /\ \A i \in 1..Len(text) : text[i] \in C24_Brackets => C24_InKey(text, map, i)

C24_UnmaskOfTokensIsIdempotent ==
    C24_Scope(computedData.text, computedData.map) => C24_Twice = C24_Once

\* a rule and a detector have each replaced at two places, and unmasking
\* restores them all at once
C24_Witness ==
    /\ C24_Scope(computedData.text, computedData.map)
    /\ Len(computedData.map) = 3
    /\ computedData.totalCount = 4
    /\ C24_Once # computedData.text
    /\ C24_Once = originalContent
    /\ C24_Twice = C24_Once

----------------------------------------------------------------------------
(* C25: no step of the masking, rule or detector, matches a character that an
   earlier step wrote as part of a placeholder: what a step has written is in
   the masked text as it was written. *)

\* a text whose characters carry a mark: written by a step, or of the document
C25_Plain(text) == [i \in 1..Len(text) |-> [c |-> text[i], written |-> FALSE]]
C25_Fresh(text) == [i \in 1..Len(text) |-> [c |-> text[i], written |-> TRUE]]
C25_TextOf(marked) == [i \in 1..Len(marked) |-> marked[i].c]

\* a match of len characters at offset q covers a written character
C25_Covers(marked, q, len) == \E i \in (q + 1)..(q + len) : marked[i].written

\* the step of a rule on a marked text: what it writes is marked, and hit says
\* whether one of its matches covers a character written before
RECURSIVE C25_RuleFrom(_, _, _, _)
C25_RuleFrom(marked, text, rule, from) ==
    LET pat == rulePattern(rule.target)
        q   == nextMatch(text, pat, from)
    IN  IF q = -1
        THEN [marked |-> SubSeq(marked, from + 1, Len(marked)), hit |-> FALSE]
        ELSE LET rest == C25_RuleFrom(marked, text, rule, q + Len(pat))
             IN  [marked |-> SubSeq(marked, from + 1, q)
                             \o C25_Fresh(C21_Written(text, rule, q))
                             \o rest.marked,
                  hit |-> rest.hit \/ C25_Covers(marked, q, Len(pat))]

\* the step of a detector on a marked text
RECURSIVE C25_DetectorFrom(_, _, _, _, _)
C25_DetectorFrom(marked, text, id, from, counter) ==
    LET cands == { q \in from..Len(text) : detectorMatchLen(id, text, q) > 0 }
    IN  IF cands = {}
        THEN [marked |-> SubSeq(marked, from + 1, Len(marked)), hit |-> FALSE]
        ELSE LET q    == Min(cands)
                 len  == detectorMatchLen(id, text, q)
                 rest == C25_DetectorFrom(marked, text, id, q + len, counter + 1)
             IN  [marked |-> SubSeq(marked, from + 1, q)
                             \o C25_Fresh(detectorPrefix(id) \o numeral(counter) \o <<"]">>)
                             \o rest.marked,
                  hit |-> rest.hit \/ C25_Covers(marked, q, len)]

RECURSIVE C25_Detectors(_, _)
C25_Detectors(state, ids) ==
    IF ids = <<>> THEN state
    ELSE IF Head(ids) \in activeRegexes
         THEN LET step == C25_DetectorFrom(state.marked, C25_TextOf(state.marked),
                                           Head(ids), 0, 1)
              IN  C25_Detectors([marked |-> step.marked, hit |-> state.hit \/ step.hit],
                                Tail(ids))
         ELSE C25_Detectors(state, Tail(ids))

RECURSIVE C25_Rules(_, _)
C25_Rules(state, rules) ==
    IF rules = <<>> THEN state
    ELSE LET step == C25_RuleFrom(state.marked, C25_TextOf(state.marked), Head(rules), 0)
         IN  C25_Rules([marked |-> step.marked, hit |-> state.hit \/ step.hit], Tail(rules))

\* the masking of the document, step by step, on the marked text
C25_AfterRules == C25_Rules([marked |-> C25_Plain(originalContent), hit |-> FALSE], RulesInOrder)
C25_Masking == C25_Detectors(C25_AfterRules, DetectorIds)

C25_PlaceholdersSurvive ==
    /\ C25_TextOf(C25_Masking.marked) = computedData.text
    /\ ~C25_Masking.hit

----------------------------------------------------------------------------
(* C26: as stated, a risk whose originalText is not in the text it was
   returned for is in no reachable state in visibleRisks() or activeRisks(),
   and owns no part of the rendered document. *)

\* the i-th risk was returned for a text that does not hold its originalText
C26_AbsentAtReturn(i) == ~Occurs(requestText, risks[i].originalText)

\* the i-th risk is out of view: not visible, not active, owner of no part
C26_OutOfView(i) ==
    /\ \A k \in 1..Len(visibleRisks) : visibleRisks[k].id # risks[i].id
    /\ \A k \in 1..Len(sortedActiveRisks) : sortedActiveRisks[k].id # risks[i].id
    /\ \A k \in 1..Len(renderParts) : renderParts[k].riskId # risks[i].id

C26_AbsentRiskNeverInView ==
    \A i \in 1..Len(risks) : C26_AbsentAtReturn(i) => C26_OutOfView(i)

(* C26 by the current text: a risk whose originalText is not in the text it
   was returned for is out of view, in neither visibleRisks() nor
   activeRisks() and owner of no part, in every reachable state in which its
   originalText is not in the current text and it is not addressed. *)

C26_AbsentRiskOutOfViewWhileAbsent ==
    \A i \in 1..Len(risks) :
        ( /\ C26_AbsentAtReturn(i)
          /\ ~Occurs(currentText, risks[i].originalText)
          /\ ~risks[i].isAddressed ) => C26_OutOfView(i)

\* after a decision that left the text alone, the risk that was never in the
\* text is out of view next to a visible risk
C26_Witness ==
    /\ Len(history) > 0
    /\ currentText = requestText
    /\ \E i \in 1..Len(risks) :
          /\ C26_AbsentAtReturn(i)
          /\ ~risks[i].isAddressed
          /\ C26_OutOfView(i)
    /\ Len(visibleRisks) > 0

----------------------------------------------------------------------------
(* C27: when the risk-identification call fails, or returns a missing or
   malformed response, risks is empty afterwards, the working text and the
   history are unchanged, no session is saved, and loading is false again
   with the start button on offer. *)

\* responses with no text or with text that holds no JSON value
C27_Unusable == { c \in Contents \cup SessionContents : c.form \in {"none", "prose"} }

\* handleAnalyze ends on a thrown error or on an unusable response
C27_Failure ==
    \/ AnalyzeFail
    \/ \E content \in C27_Unusable : AnalyzeSuccess(rawRisks(content))

\* the start button is rendered and enabled
C27_CanStart == ~loading /\ Len(risks) = 0

C27_FailureLeavesReview ==
    [][ C27_Failure =>
          /\ risks' = <<>>
          /\ currentText' = currentText
          /\ history' = history
          /\ sessions' = sessions
          /\ C27_CanStart' ]_vars

----------------------------------------------------------------------------
(* C28: after any sequence of rule additions, edits and deletions, from the
   text selection and from the library alike, no two rules of the list have
   the same target. *)

C28_NoTwoRulesShareTarget ==
    \A i, j \in 1..Len(sensitiveWords) :
        sensitiveWords[i].target = sensitiveWords[j].target => i = j

----------------------------------------------------------------------------
(* C29: reopening a saved session sets the working text to the text saved in
   the session, the one its risks were computed against, and the risk list to
   the saved risks. *)

C29_ReopenRestoresSavedText ==
    [][ \A i \in 1..Len(sessions) :
            LoadHistory(sessions[i]) =>
                /\ currentText' = sessions[i].content
                /\ risks' = sessions[i].risks ]_vars

----------------------------------------------------------------------------
(* C30: accept(r) and ignore(r) leave the number, the order and the ids of the
   risk records as they are and change no field but isAddressed of the risk
   with id r; accept, ignore and undo leave originalText, suggestedText and
   level of every risk as they are. *)

\* the i-th record keeps its id and its three texts over the step
C30_SameRecord(i) ==
    /\ risks'[i].id = risks[i].id
    /\ risks'[i].originalText = risks[i].originalText
    /\ risks'[i].suggestedText = risks[i].suggestedText
    /\ risks'[i].level = risks[i].level

C30_SameList ==
    /\ Len(risks') = Len(risks)
    /\ \A i \in 1..Len(risks) : C30_SameRecord(i)

\* no flag changes but the one of the risk with this id
C30_OnlyFlagOf(riskId) ==
    \A i \in 1..Len(risks) :
        risks[i].id # riskId => risks'[i].isAddressed = risks[i].isAddressed

C30_DecisionsKeepRecords ==
    [][ /\ \A i \in 1..Len(risks) :
              (HandleAcceptRisk(risks[i]) \/ HandleIgnoreRisk(risks[i].id)) =>
                  (C30_SameList /\ C30_OnlyFlagOf(risks[i].id))
        /\ (HandleUndo /\ Len(risks) > 0) => C30_SameList ]_vars

\* an accepted and an ignored risk next to one still open
C30_Witness ==
    /\ Len(history) = 2
    /\ currentText # requestText
    /\ \E i, j \in 1..Len(risks) : risks[i].isAddressed /\ ~risks[j].isAddressed

----------------------------------------------------------------------------
(* C31: every part of the rendered document that is not plain carries the id
   and the level of a risk of the list; it is either the originalText of a
   risk that is not addressed, isAnimating false, or the suggestedText of the
   risk in accept animation, isAnimating true. No part belongs to an
   addressed risk that is not the one in animation. *)

\* the part is the highlighted originalText of the open risk r
C31_OpenPart(part, r) ==
    /\ ~part.isAnimating
    /\ part.text = r.originalText
    /\ ~r.isAddressed
    /\ \E k \in 1..Len(sortedActiveRisks) : sortedActiveRisks[k].id = r.id

\* the part is the suggestedText of r, the risk in accept animation
C31_AnimatingPart(part, r) ==
    /\ part.isAnimating
    /\ part.text = r.suggestedText
    /\ r.id = animatingRiskId

C31_PartsAreOwned ==
    \A k \in 1..Len(renderParts) :
        renderParts[k].riskId # NoId =>
            \E i \in 1..Len(risks) :
                /\ risks[i].id = renderParts[k].riskId
                /\ risks[i].level = renderParts[k].level
                /\ \/ C31_OpenPart(renderParts[k], risks[i])
                   \/ C31_AnimatingPart(renderParts[k], risks[i])

\* a part in animation next to a part of an open risk
C31_Witness ==
    \E j, k \in 1..Len(renderParts) :
        /\ renderParts[j].riskId # NoId /\ renderParts[j].isAnimating
        /\ renderParts[k].riskId # NoId /\ ~renderParts[k].isAnimating

----------------------------------------------------------------------------
(* C32: each enabled detector replaces its matches in the text computed so
   far, left to right, by prefix, n and "]" with n = 1, 2, 3, ... from 1 for
   every detector and every computation; the placeholders of the matches
   differ, the map holds the matched text under each placeholder, and the
   count of replacements grows by one per match. *)

\* the data before the k-th detector runs
C32_Before(k) ==
    applyDetectors(DataAfterRules, SubSeq(DetectorIds, 1, k - 1), activeRegexes)

\* the offsets of the matches of detector id in text: where the regex matches
\* and no match that starts earlier reaches
C32_Starts(id, text) ==
    LET cands == { q \in 0..Len(text) : detectorMatchLen(id, text, q) > 0 }
    IN  { q \in cands :
            ~\E p \in cands : p < q /\ q < p + detectorMatchLen(id, text, p) }

\* the n-th of them from the left
C32_Start(id, text, n) ==
    CHOOSE q \in C32_Starts(id, text) :
        Cardinality({ p \in C32_Starts(id, text) : p < q }) = n - 1

C32_Placeholder(id, n) == detectorPrefix(id) \o numeral(n) \o <<"]">>

\* the value the map holds under key, <<>> where it holds none
C32_Value(map, key) ==
    IF \E i \in 1..Len(map) : map[i].key = key
    THEN map[CHOOSE i \in 1..Len(map) : map[i].key = key].value
    ELSE <<>>

\* text with its matches replaced from the n-th on
RECURSIVE C32_Replaced(_, _, _)
C32_Replaced(id, text, n) ==
    IF n > Cardinality(C32_Starts(id, text))
    THEN SubSeq(text,
                IF n = 1 THEN 1
                ELSE C32_Start(id, text, n - 1)
                     + detectorMatchLen(id, text, C32_Start(id, text, n - 1)) + 1,
                Len(text))
    ELSE SubSeq(text,
                IF n = 1 THEN 1
                ELSE C32_Start(id, text, n - 1)
                     + detectorMatchLen(id, text, C32_Start(id, text, n - 1)) + 1,
                C32_Start(id, text, n))
         \o C32_Placeholder(id, n) \o C32_Replaced(id, text, n + 1)

C32_DetectorStep(k) ==
    LET id      == DetectorIds[k]
        before  == C32_Before(k)
        after   == C32_Before(k + 1)
        matches == Cardinality(C32_Starts(id, before.text))
    IN  IF id \in activeRegexes
        THEN /\ after.text = C32_Replaced(id, before.text, 1)
             /\ after.totalCount = before.totalCount + matches
             /\ \A n \in 1..matches :
                    LET q == C32_Start(id, before.text, n)
                    IN  C32_Value(after.map, C32_Placeholder(id, n)) =
                            SubSeq(before.text, q + 1,
                                   q + detectorMatchLen(id, before.text, q))
             /\ \A m, n \in 1..matches :
                    C32_Placeholder(id, m) = C32_Placeholder(id, n) => m = n
        ELSE after = before

C32_DetectorsNumberTheirMatches ==
    \A k \in 1..Len(DetectorIds) : C32_DetectorStep(k)

\* two detectors at work behind a rule: two amounts, then a date numbered
\* from 1 again
C32_Witness ==
    /\ Len(sensitiveWords) > 0
    /\ DataAfterRules.totalCount > 0
    /\ Cardinality(C32_Starts("money", C32_Before(1).text)) = 2
    /\ Cardinality(C32_Starts("date", C32_Before(3).text)) = 1
    /\ {"money", "date"} \subseteq activeRegexes
    /\ C32_Value(computedData.map, C32_Placeholder("date", 1)) # <<>>
    /\ computedData.totalCount = DataAfterRules.totalCount + 3

----------------------------------------------------------------------------
(* C33: when an ignore has run, and when the timer of an accept has fired,
   selectedRiskId is null or the id of a risk in sortedActiveRisks of the
   state reached, and it is null only if sortedActiveRisks is empty there. *)

\* the selection is an active risk, or nothing where nothing is active
C33_FocusOnActive ==
    IF selectedRiskId = NoId THEN Len(sortedActiveRisks) = 0
    ELSE \E k \in 1..Len(sortedActiveRisks) : sortedActiveRisks[k].id = selectedRiskId

\* text and risks are as the accept of the risk in animation left them
C33_JustAccepted ==
    /\ Len(history) > 0
    /\ isAnimatingSuccess
    /\ \E i \in 1..Len(risks) :
          /\ risks[i].id = animatingRiskId
          /\ risks = markAddressed(Last(history).risks, risks[i].id)
          /\ currentText = replace(Last(history).text, risks[i].originalText,
                                   risks[i].suggestedText)

C33_DecisionMovesFocusToActive ==
    [][ /\ (\E i \in 1..Len(risks) : HandleIgnoreRisk(risks[i].id)) => C33_FocusOnActive'
        /\ (C33_JustAccepted /\ \E t \in timers : TimerFire(t)) => C33_FocusOnActive' ]_vars

----------------------------------------------------------------------------
(* C34: in every reachable state selectedRiskId is null or the id of a risk
   of the current list, also after back-navigation, restart, a new analysis
   result, undo and the timer of an accept. *)

C34_SelectionInList ==
    selectedRiskId = NoId \/ \E i \in 1..Len(risks) : risks[i].id = selectedRiskId

----------------------------------------------------------------------------
(* C35: the history is cleared whenever the risk list is cleared or replaced
   (restart, back-navigation, a new analysis result), so that the risks of
   every history entry have the ids of the current risk list, in its order. *)

\* the ids of a risk list, in its order
C35_Ids(rs) == [i \in 1..Len(rs) |-> rs[i].id]

C35_HistoryOfCurrentList ==
    \A k \in 1..Len(history) : C35_Ids(history[k].risks) = C35_Ids(risks)

----------------------------------------------------------------------------
(* C36: at most one timer of an accept is pending at any time, and it is the
   one transitionTimeoutRef holds, set by the accept whose animation is
   running: an accept clears the pending timer before it sets its own and
   undo clears it, so no timer of an earlier accept is left to fire. *)

C36_OnePendingTimer ==
    /\ Cardinality(timers) <= 1
    /\ \A t \in timers :
          /\ t.id = transitionTimeoutRef
          /\ isAnimatingSuccess
          /\ animatingRiskId # NoId

\* a second accept made while the timer of the first was pending
C36_Witness ==
    /\ Len(history) = 2
    /\ history[1].text # history[2].text
    /\ history[2].text # currentText
    /\ history[1].selectedId = history[2].selectedId
    /\ selectedRiskId = history[2].selectedId
    /\ Cardinality(timers) = 1

----------------------------------------------------------------------------
(* ReviewInterface: what the document view and the download show *)

\* renderDocumentContent, displayText of one part: restored in the original
\* view of a masked contract, else as it is
displayText(part) ==
    IF ~isMaskedView /\ privacyData.isMasked
    THEN unmaskText(part.text, privacyData.maskMap) ELSE part.text

RECURSIVE displayTexts(_)
displayTexts(parts) ==
    IF parts = <<>> THEN <<>> ELSE displayText(Head(parts)) \o displayTexts(Tail(parts))

\* downloadContract: finalContent
downloadContract == unmaskText(currentText, privacyData.maskMap)

(* C37: in the original view of a masked contract the display texts of the
   parts, joined in order, are the text that download writes *)
C37_OriginalView == ~isMaskedView /\ privacyData.isMasked

C37_DisplayIsDownload == C37_OriginalView => displayTexts(renderParts) = downloadContract

\* the page of a masked contract never leaves the masked view: isMaskedView
\* starts as !!privacyData and is only ever set to true
C37_MaskedContractInMaskedView == ~C37_OriginalView

----------------------------------------------------------------------------
(* C38: a step in which an analysis succeeds leaves the returned risks, each
   with isAddressed = false, in the order of the first offsets of their
   originalText in the analysed text; it leaves the history empty; and it
   adds exactly one session, in front of those saved before, whose content is
   the analysed text and whose risks are that sorted list. *)

\* the step of a successful analysis: the request ends and a session is saved
C38_Succeeds == loading /\ ~loading' /\ sessions' # sessions

\* rs holds exactly the risks of the response, in some order
C38_SameRisks(rs, returned) ==
    /\ Len(rs) = Len(returned)
    /\ \A i \in 1..Len(returned) : \E j \in 1..Len(rs) : rs[j] = returned[i]

C38_Returned(rs) ==
    \E content \in Contents \cup SessionContents :
        C38_SameRisks(rs, identifiedRisks(rawRisks(content)))

C38_InOffsetOrder(rs, text) ==
    \A i, j \in 1..Len(rs) :
        i < j => indexOf(text, rs[i].originalText) <= indexOf(text, rs[j].originalText)

C38_AnalysisResult ==
    [][C38_Succeeds =>
          /\ C38_Returned(risks')
          /\ C38_InOffsetOrder(risks', requestText)
          /\ \A i \in 1..Len(risks') : ~risks'[i].isAddressed
          /\ history' = <<>>
          /\ Len(sessions') = (IF Len(sessions) < MaxSessions
                                THEN Len(sessions) + 1 ELSE MaxSessions)
          /\ Tail(sessions') = SubSeq(sessions, 1, Len(sessions') - 1)
          /\ sessions'[1].content = requestText
          /\ sessions'[1].risks = risks']_vars

\* a response given against the order of the document was sorted and saved
C38_Witness ==
    /\ ~loading
    /\ Len(risks) = 3
    /\ risks[1].id > risks[3].id
    /\ history = <<>>
    /\ Len(sessions) = 1
    /\ sessions[1].risks = risks
    /\ sessions[1].content = currentText

----------------------------------------------------------------------------
(* The session list under saveSession *)

\* a session as handleAnalyze hands it to onSaveSession, of a contract that was
\* not masked
sessionOf(id, content) ==
    [id |-> id, content |-> content, risks |-> <<>>, privacyData |-> NoPrivacy]

\* the list read from localStorage at mount, written by saveSession in earlier
\* visits: n sessions, the newest first, their ids the clock readings of then
storedSessions(n) == [i \in 1..n |-> sessionOf(0 - i, <<"a">>)]

\* App mounted: no stored list, or a list one short of the limit or at it
SaveInit ==
    /\ sessions \in { storedSessions(n) : n \in {0, MaxSessions - 1, MaxSessions} }
    /\ analyses = 0
    /\ currentText \in Documents
    /\ risks = <<>>
    /\ selectedRiskId = NoId
    /\ history = <<>>
    /\ isAnimatingSuccess = FALSE
    /\ animatingRiskId = NoId
    /\ transitionTimeoutRef = NoTimer
    /\ timers = {}
    /\ loading = FALSE
    /\ requestText = <<>>
    /\ originalContent = currentText
    /\ sensitiveWords = <<>>
    /\ activeRegexes = {}
    /\ privacyData = NoPrivacy
    /\ initialSession = FALSE
    /\ isMaskedView = privacyData.isMasked

\* one call of saveSession; the clock goes on
SaveSession(session) ==
    /\ analyses < MaxAnalyses
    /\ analyses' = analyses + 1
    /\ sessions' = saveSession(sessions, session)
    /\ UNCHANGED <<currentText, risks, selectedRiskId, history, isAnimatingSuccess,
                   animatingRiskId, transitionTimeoutRef, timers, loading, requestText,
                   guardVars, appVars>>

\* a session with an id of its own, the reading of the clock
SaveFresh == \E id \in {analyses + 1} : SaveSession(sessionOf(id, currentText))

\* a session with the id of one in the list
SaveAgain == \E i \in 1..Len(sessions) : SaveSession(sessionOf(sessions[i].id, currentText))

SaveNext == SaveFresh \/ SaveAgain

SaveSpec == SaveInit /\ [][SaveNext]_vars

(* C39: each call of saveSession leaves a list of at most 20 entries, no two
   with one id, and leaves the session it saved first,
   followed by the sessions of before without the one of the same id, as many
   as fit. *)

C39_Bounded == Len(sessions) <= MaxSessions

C39_DistinctIds ==
    \A i, j \in 1..Len(sessions) : sessions[i].id = sessions[j].id => i = j

C39_Others(list, id) == SelectSeq(list, LAMBDA s : s.id # id)

C39_SavedFirst ==
    /\ Len(sessions') >= 1
    /\ sessions'[1].content = currentText
    /\ Tail(sessions') = SubSeq(C39_Others(sessions, sessions'[1].id), 1, Len(sessions') - 1)
    /\ \/ Len(sessions') = MaxSessions
       \/ Len(sessions') = Len(C39_Others(sessions, sessions'[1].id)) + 1

C39_SessionList ==
    [][analyses' # analyses => C39_Bounded' /\ C39_DistinctIds' /\ C39_SavedFirst]_vars

\* a full list took a new session, which dropped the oldest one, and then a
\* session with the id of a stored one, which moved to the front
C39_Witness ==
    /\ Len(sessions) = MaxSessions
    /\ sessions[1].id < 0
    /\ sessions[1].content = currentText
    /\ sessions[2].id = 1
    /\ \A i \in 1..Len(sessions) : sessions[i].id # 0 - MaxSessions

====
